---------------------------- MODULE Spec2Model ----------------------------
(***************************************************************************)
(* Terrain streaming, sprite pooling, mutation queue and field of view of  *)
(* project_platypus (src/terrain.rs, src/visibility.rs, src/player.rs,     *)
(* src/camera.rs, src/main.rs).                                            *)
(*                                                                         *)
(* Every Bevy system is one action.  A system's Commands are applied when  *)
(* the system ends, so an entity spawned by a system exists, with its      *)
(* TileSprite component, in the state the action produces.                 *)
(* The app runs the systems of its schedule in order, once per frame:      *)
(* frame is the schedule and pc the position in it.                        *)
(*                                                                         *)
(* Lengths are in world units (pixels); a tile is TILE_SIZE units wide.    *)
(* Row 0 is the top of the world, so world y grows upwards while tile y    *)
(* grows downwards (tile_to_world_y / world_to_tile_y).                    *)
(* mine_time is counted in sixtieths of a second (0.25 s = 15).            *)
(***************************************************************************)
EXTENDS Integers, Sequences, FiniteSets, TLC

(* ------------------------------------------------------------------ *)
(* bounds of the model                                                 *)
(* ------------------------------------------------------------------ *)
\* terrain.width and terrain.height of the streamed world, in tiles
Width == 4
Height == 3
\* most inputs (player moves, digs, pickaxe calls, placed stones) of a run
MaxInputs == 3
\* overscan of the active window, in tiles (16 in constants.rs, scaled to the grid)
ACTIVE_MARGIN == 0
\* vision range in tiles (48 in visibility.rs, scaled to the grid)
FOV_RADIUS == 2

(* ------------------------------------------------------------------ *)
(* program constants                                                   *)
(* ------------------------------------------------------------------ *)
TILE_SIZE == 12
LIGHT_BLEED_RADIUS == 1
ALWAYS_VISIBLE_DEPTH == 2
\* radius of the pickaxe disc: 2.0 * TILE_SIZE
MINING_RADIUS == 2 * TILE_SIZE
\* radius of the circular dig: 8.0 * TILE_SIZE
DIG_RADIUS == 8 * TILE_SIZE
\* pickaxe work per call, in sixtieths of a second: dt * PICKAXE_SPEED = 4/60
PICKAXE_SPEED == 4

\* Option::None of an entity slot; entity ids start at 1
NoEntity == 0
\* Option::None of the ActiveRect and LastRect resources
NoRect == [none |-> TRUE]

\* Option::None of the LoadedWindow resource and of the kept chunk rectangle
NoWindow == [none |-> TRUE]

\* no coordinate indexed, no panic
Untouched == [at |-> {}, panic |-> FALSE]

\* the locals of the placement loops once generate_world_and_player returned
GenOver == [phase |-> "done", side |-> "right", attempts |-> 0, made |-> 0,
            bands |-> <<>>, island |-> 0, tries |-> 0, rects |-> <<>>,
            warnings |-> <<>>]

TileKind == {"Air", "Sky", "Grass", "Dirt", "Stone", "Obsidian", "Snow"}

VARIABLES
    tiles,            \* Terrain.tiles: <<x, y>> -> [kind, visible, explored, mine_time]
    height_map,       \* Terrain.height_map: column -> surface row
    width,            \* Terrain.width
    height,           \* Terrain.height
    sprite_entities,  \* Terrain.sprite_entities: flat index -> entity or NoEntity
    free_sprites,     \* Terrain.free_sprites: the pool, a Vec used as a stack
    changed_tiles,    \* Terrain.changed_tiles: the mutation queue
    entities,         \* the ECS store of tile drawables: entity id -> components
    rect,             \* the ActiveRect resource (NoRect until first inserted)
    last_rect,        \* the LastRect resource
    window,           \* the Window size in world units, <<width, height>>
    player_pos,       \* the player's Transform translation, <<x, y>>
    cam_pos,          \* the camera's Transform translation, <<x, y>>
    player_tile,      \* the PlayerTile resource, <<x, y>>
    pt_changed,       \* PlayerTile changed since recompute_fov_system last ran
    vis_set,          \* VisibleTiles.set
    done,             \* main.rs: the Local<bool> of spawn_initial_tiles
    frame,            \* the schedule: the systems of a frame, in the order they run
    pc,               \* position in the frame: frame[pc] is the next system to run
    inputs,           \* number of inputs taken so far
    gen,              \* generate_world_and_player: the locals of its placement loops
    viewer,           \* whether a Camera entity and a Player entity exist
    loaded,           \* the LoadedWindow resource: NoWindow or its origin chunk
    PREV,             \* the chunk rectangle stream_tiles_system of tile_stream.rs kept
    touched,          \* the coordinates the last chunk step indexed, and whether it panicked
    rect_written      \* whether ActiveRect was written since stream_tiles_system last ran

vars == <<tiles, height_map, width, height, sprite_entities, free_sprites,
          changed_tiles, entities, rect, last_rect, window, player_pos,
          cam_pos, player_tile, pt_changed, vis_set, done, frame, pc, inputs,
          gen, viewer, loaded, PREV, touched,
          rect_written>>

(* ------------------------------------------------------------------ *)
(* arithmetic helpers                                                  *)
(* ------------------------------------------------------------------ *)
Min(a, b) == IF a < b THEN a ELSE b
Max(a, b) == IF a > b THEN a ELSE b

\* i32::clamp
clamp(v, lo, hi) == IF v < lo THEN lo ELSE IF v > hi THEN hi ELSE v

\* (n / d).floor() for d > 0
floor_div(n, d) == n \div d

\* (n / d).ceil() for d > 0
ceil_div(n, d) == -((-n) \div d)

\* (n / d).round() for d > 0: f32::round rounds half away from zero
round_div(n, d) == IF n >= 0 THEN (2 * n + d) \div (2 * d)
                   ELSE -((2 * (-n) + d) \div (2 * d))

tile_to_world_y(terrain_h, tile_y) == (terrain_h - 1 - tile_y) * TILE_SIZE

world_to_tile_y(terrain_h, world_y) == terrain_h - 1 - floor_div(world_y, TILE_SIZE)

\* Terrain::idx
idx(w, x, y) == y * w + x

InBounds(w, h, x, y) == x >= 0 /\ y >= 0 /\ x < w /\ y < h

Cells(w, h) == (0 .. w - 1) \X (0 .. h - 1)

(* ------------------------------------------------------------------ *)
(* the grid after generation                                           *)
(* ------------------------------------------------------------------ *)
\* the mine times with Stone as quick to mine as Dirt
mine_time_of_soft_stone(kind) ==
    CASE kind = "Grass"    -> 6
      [] kind = "Snow"     -> 6
      [] kind = "Dirt"     -> 15
      [] kind = "Stone"    -> 15
      [] kind = "Obsidian" -> 60
      [] OTHER             -> 0

\* mine time of a kind as generate_world_and_player assigns it
mine_time_of(kind) ==
    CASE kind = "Grass"    -> 6
      [] kind = "Snow"     -> 6
      [] kind = "Dirt"     -> 15
      [] kind = "Stone"    -> 30
      [] kind = "Obsidian" -> 60
      [] OTHER             -> 0

\* column fill: Sky above the surface row, Grass on it, Dirt below, Stone at
\* depth; cells of `caves` below the surface are carved to Air
column_kind(hm, caves, x, y) ==
    IF y < hm[x] THEN "Sky"
    ELSE IF <<x, y>> \in caves /\ y > hm[x] THEN "Air"
    ELSE IF y = hm[x] THEN "Grass"
    ELSE IF y = hm[x] + 1 THEN "Dirt"
    ELSE "Stone"

generated_tiles(w, h, hm, caves) ==
    [c \in Cells(w, h) |->
        LET k == column_kind(hm, caves, c[1], c[2])
        IN  [kind |-> k, visible |-> FALSE, explored |-> FALSE,
             mine_time |-> mine_time_of(k)]]

(* ------------------------------------------------------------------ *)
(* drawable pool                                                       *)
(* ------------------------------------------------------------------ *)
\* The pool state threaded through a system: se = sprite_entities,
\* fs = free_sprites, en = entities.

\* spawn_tile: a new entity with Sprite, Transform and TileSprite {x, y}
spawn_tile(en, x, y) ==
    Append(en, [x |-> x, y |-> y, vis |-> "Inherited", added |-> TRUE,
                alive |-> TRUE])

\* commands.entity(e).insert((Visibility::Visible, Sprite, Transform, TileSprite))
reparam(en, e, x, y) ==
    [en EXCEPT ![e] = [@ EXCEPT !.x = x, !.y = y, !.vis = "Visible"]]

\* recycle with the slot left as it is: the drawable is hidden and pooled
\* while its cell still refers to it
recycle_keeping_slot(w, P, x, y) ==
    LET i == idx(w, x, y)
        e == P.se[i]
    IN  IF e = NoEntity THEN P
        ELSE [se |-> P.se,
              fs |-> Append(P.fs, e),
              en |-> [P.en EXCEPT ![e] = [@ EXCEPT !.vis = "Hidden"]]]

\* hide the drawable, push it onto the pool, clear the slot
recycle(w, P, x, y) ==
    LET i == idx(w, x, y)
        e == P.se[i]
    IN  IF e = NoEntity THEN P
        ELSE [se |-> [P.se EXCEPT ![i] = NoEntity],
              fs |-> Append(P.fs, e),
              en |-> [P.en EXCEPT ![e] = [@ EXCEPT !.vis = "Hidden"]]]

\* ensure_sprite with Air left undrawn, like Sky
ensure_sprite_skipping_air(T, w, h, P, x, y) ==
    IF ~InBounds(w, h, x, y) THEN P
    ELSE LET i == idx(w, x, y) IN
         IF P.se[i] # NoEntity THEN P
         ELSE IF T[<<x, y>>].kind \in {"Sky", "Air"} THEN P
         ELSE IF P.fs # <<>>
              THEN LET e == P.fs[Len(P.fs)]
                   IN  [se |-> [P.se EXCEPT ![i] = e],
                        fs |-> SubSeq(P.fs, 1, Len(P.fs) - 1),
                        en |-> reparam(P.en, e, x, y)]
              ELSE [se |-> [P.se EXCEPT ![i] = Len(P.en) + 1],
                    fs |-> P.fs,
                    en |-> spawn_tile(P.en, x, y)]

ensure_sprite(T, w, h, P, x, y) ==
    IF ~InBounds(w, h, x, y) THEN P
    ELSE LET i == idx(w, x, y) IN
         IF P.se[i] # NoEntity THEN P
         ELSE IF T[<<x, y>>].kind = "Sky" THEN P
         ELSE IF P.fs # <<>>
              THEN LET e == P.fs[Len(P.fs)]
                   IN  [se |-> [P.se EXCEPT ![i] = e],
                        fs |-> SubSeq(P.fs, 1, Len(P.fs) - 1),
                        en |-> reparam(P.en, e, x, y)]
              ELSE [se |-> [P.se EXCEPT ![i] = Len(P.en) + 1],
                    fs |-> P.fs,
                    en |-> spawn_tile(P.en, x, y)]

\* The loops over a sequence of cells are folds.  A fold over a sequence is
\* the fold over its second half applied to the value of the fold over its
\* first half, which keeps the evaluation shallow on long sequences.
RECURSIVE ensure_all(_, _, _, _, _)
ensure_all(T, w, h, P, cs) ==
    IF cs = <<>> THEN P
    ELSE IF Len(cs) = 1 THEN ensure_sprite(T, w, h, P, cs[1][1], cs[1][2])
    ELSE LET m == Len(cs) \div 2
         IN  CHOOSE r \in {ensure_all(T, w, h, first, SubSeq(cs, m + 1, Len(cs))) :
                            first \in {ensure_all(T, w, h, P, SubSeq(cs, 1, m))}} : TRUE

RECURSIVE recycle_all(_, _, _)
recycle_all(w, P, cs) ==
    IF cs = <<>> THEN P
    ELSE IF Len(cs) = 1 THEN recycle(w, P, cs[1][1], cs[1][2])
    ELSE LET m == Len(cs) \div 2
         IN  CHOOSE r \in {recycle_all(w, first, SubSeq(cs, m + 1, Len(cs))) :
                            first \in {recycle_all(w, P, SubSeq(cs, 1, m))}} : TRUE

\* for y in min_y..=max_y { for x in min_x..=max_x { .. } }
row_major(r) ==
    LET nx == Max(0, r.max_x - r.min_x + 1)
        ny == Max(0, r.max_y - r.min_y + 1)
    IN  [k \in 1 .. nx * ny |->
            <<r.min_x + ((k - 1) % nx), r.min_y + ((k - 1) \div nx)>>]

\* for x in min_x..=max_x { for y in min_y..=max_y { .. } }
col_major(r) ==
    LET nx == Max(0, r.max_x - r.min_x + 1)
        ny == Max(0, r.max_y - r.min_y + 1)
    IN  [k \in 1 .. nx * ny |->
            <<r.min_x + ((k - 1) \div ny), r.min_y + ((k - 1) % ny)>>]

InRect(r, x, y) == x >= r.min_x /\ x <= r.max_x /\ y >= r.min_y /\ y <= r.max_y

\* stripes entering view, in the order stream_tiles_system visits them
entering(prev, new) ==
    SelectSeq(col_major(new), LAMBDA c : c[1] < prev.min_x \/ c[1] > prev.max_x)
    \o SelectSeq(row_major(new), LAMBDA c : c[2] < prev.min_y \/ c[2] > prev.max_y)

\* leaving with the test of the right edge forgotten: columns that fall off
\* the right side of the window are not pooled
leaving_left_only(prev, new) ==
    SelectSeq(col_major(prev), LAMBDA c : c[1] < new.min_x)
    \o SelectSeq(row_major(prev),
                 LAMBDA c : (c[2] < new.min_y \/ c[2] > new.max_y)
                            /\ c[1] >= new.min_x /\ c[1] <= new.max_x)

\* stripes leaving view, in the order stream_tiles_system visits them
leaving(prev, new) ==
    SelectSeq(col_major(prev), LAMBDA c : c[1] < new.min_x \/ c[1] > new.max_x)
    \o SelectSeq(row_major(prev),
                 LAMBDA c : (c[2] < new.min_y \/ c[2] > new.max_y)
                            /\ c[1] >= new.min_x /\ c[1] <= new.max_x)

\* a change of rectangle handled by a scan of the whole window: every
\* drawable of the previous rectangle pooled, every cell of the new one
\* materialized
stream_tiles_rescan(T, w, h, P, prev, new) ==
    IF prev = new THEN P
    ELSE IF prev = NoRect THEN ensure_all(T, w, h, P, row_major(new))
    ELSE ensure_all(T, w, h, recycle_all(w, P, row_major(prev)), row_major(new))

\* the body of stream_tiles_system: the pool state it leaves
stream_tiles(T, w, h, P, prev, new) ==
    IF prev = new THEN P
    ELSE IF prev = NoRect THEN ensure_all(T, w, h, P, row_major(new))
    ELSE recycle_all(w, ensure_all(T, w, h, P, entering(prev, new)),
                     leaving(prev, new))

Pool == [se |-> sprite_entities, fs |-> free_sprites, en |-> entities]



(* ------------------------------------------------------------------ *)
(* field of view: recursive shadow casting                             *)
(* ------------------------------------------------------------------ *)
\* A slope is a fraction <<n, d>> with d > 0.  The source computes slopes in
\* f32; two different slopes of the scan differ by far more than the f32
\* rounding error, so comparing the exact fractions gives the same result.
slope_lt(a, b) == a[1] * b[2] < b[1] * a[2]

\* (dx - 0.5) / (dy + 0.5), for dy <= -1
l_slope(dx, dy) == <<1 - 2 * dx, -(2 * dy) - 1>>

\* (dx + 0.5) / (dy - 0.5), for dy <= -1
r_slope(dx, dy) == <<-(2 * dx) - 1, 1 - 2 * dy>>

\* OCT with the W-SW row a copy of the E-SE row
OCT_copied_row ==
    << <<1, 0, 0, 1>>,  <<0, 1, 1, 0>>,  <<0, -1, 1, 0>>,  <<1, 0, 0, 1>>,
       <<-1, 0, 0, -1>>, <<0, -1, -1, 0>>, <<0, 1, -1, 0>>, <<1, 0, 0, -1>> >>

\* the transforms of the eight octants, (xx, xy, yx, yy)
OCT == << <<1, 0, 0, 1>>,  <<0, 1, 1, 0>>,  <<0, -1, 1, 0>>,  <<-1, 0, 0, 1>>,
          <<-1, 0, 0, -1>>, <<0, -1, -1, 0>>, <<0, 1, -1, 0>>, <<1, 0, 0, -1>> >>

\* no kind stops light
opaque_none(kind) == FALSE

\* the test cast_light uses for a tile that stops light
opaque(kind) == kind \in {"Dirt", "Stone"}

\* the distance check dropped: the whole row span of the scan is inserted
in_radius_unchecked(dx, dy, radius) == TRUE

\* the distance check of cast_light
in_radius(dx, dy, radius) == dx * dx + dy * dy <= radius * radius

\* c = [T, w, h, cx, cy, radius, o]: the arguments a cast keeps through its
\* recursion; st = [out, start, blocked, new_start]: its mutable locals
RECURSIVE cast_light(_, _, _, _, _)
RECURSIVE cast_rows(_, _, _, _)
RECURSIVE cast_scan(_, _, _, _, _)

\* the `while dx <= 0` loop of one row
cast_scan(c, dist, dx, st, end) ==
    IF dx > 0 THEN st
    ELSE
    LET dy == -dist
        l  == l_slope(dx, dy)
        r  == r_slope(dx, dy)
        tx == c.cx + dx * c.o[1] + dy * c.o[2]
        ty == c.cy + dx * c.o[3] + dy * c.o[4]
    IN  IF slope_lt(st.start, r) THEN cast_scan(c, dist, dx + 1, st, end)
        ELSE IF slope_lt(l, end) THEN st
        ELSE IF ~InBounds(c.w, c.h, tx, ty) THEN cast_scan(c, dist, dx + 1, st, end)
        ELSE
        LET out1 == IF in_radius(dx, dy, c.radius)
                    THEN st.out \cup {<<tx, ty>>} ELSE st.out
            opq  == opaque(c.T[<<tx, ty>>].kind)
            st1  == IF st.blocked
                    THEN IF opq
                         THEN [st EXCEPT !.out = out1, !.new_start = r]
                         ELSE [st EXCEPT !.out = out1, !.blocked = FALSE,
                                         !.start = st.new_start]
                    ELSE IF opq
                         THEN [out       |-> cast_light(c, dist + 1, st.start, l, out1),
                               start     |-> st.start,
                               blocked   |-> TRUE,
                               new_start |-> r]
                         ELSE [st EXCEPT !.out = out1]
        IN  cast_scan(c, dist, dx + 1, st1, end)

\* the `for dist in row..=radius` loop
cast_rows(c, dist, st, end) ==
    IF dist > c.radius THEN st
    ELSE LET s2 == cast_scan(c, dist, -dist, st, end)
         IN  IF s2.blocked THEN s2 ELSE cast_rows(c, dist + 1, s2, end)

cast_light(c, row, start_slope, end_slope, out) ==
    IF slope_lt(start_slope, end_slope) THEN out
    ELSE cast_rows(c, row,
                   [out |-> out, start |-> start_slope, blocked |-> FALSE,
                    new_start |-> <<0, 1>>],
                   end_slope).out

\* the eight casts of recompute_fov_system, from octant k on
RECURSIVE cast_octants(_, _, _, _, _, _, _, _)
cast_octants(T, w, h, px, py, radius, k, out) ==
    IF k > 8 THEN out
    ELSE cast_octants(T, w, h, px, py, radius, k + 1,
            cast_light([T |-> T, w |-> w, h |-> h, cx |-> px, cy |-> py,
                        radius |-> radius, o |-> OCT[k]],
                       1, <<1, 1>>, <<0, 1>>, out))

\* the casts alone, the player's own tile left to them
lit_tiles_casts_only(T, w, h, px, py, radius) ==
    cast_octants(T, w, h, px, py, radius, 1, {})

\* the casts plus the player's own tile
lit_tiles(T, w, h, px, py, radius) ==
    cast_octants(T, w, h, px, py, radius, 1, {})
    \cup (IF InBounds(w, h, px, py) THEN {<<px, py>>} ELSE {})

\* halo bleed: every lit tile lights its in-grid neighbours
halo_bleed(w, h, lit) ==
    IF LIGHT_BLEED_RADIUS > 0
    THEN lit \cup {n \in Cells(w, h) :
                     \E t \in lit :
                        /\ n[1] - t[1] \in -LIGHT_BLEED_RADIUS .. LIGHT_BLEED_RADIUS
                        /\ n[2] - t[2] \in -LIGHT_BLEED_RADIUS .. LIGHT_BLEED_RADIUS}
    ELSE lit

\* the band ending at the surface row
surface_band_to_surface(w, h, hm) ==
    {n \in Cells(w, h) : n[2] <= Min(hm[n[1]], h - 1)}

\* the surface band: every row from the top down to ALWAYS_VISIBLE_DEPTH
\* rows below the surface, in every column of the grid
surface_band(w, h, hm) ==
    {n \in Cells(w, h) : n[2] <= Min(hm[n[1]] + ALWAYS_VISIBLE_DEPTH, h - 1)}

\* phase 0 of recompute_fov_system for a given radius: the casts, the halo
\* bleed and the surface band
visible_within(T, w, h, hm, px, py, radius) ==
    halo_bleed(w, h, lit_tiles(T, w, h, px, py, radius))
    \cup surface_band(w, h, hm)

\* phase 0 of recompute_fov_system: the new visible set
new_visible(T, w, h, hm, px, py) ==
    visible_within(T, w, h, hm, px, py, FOV_RADIUS)

\* The two diffs of phase 1 iterate HashSet differences, whose order is not
\* specified; the model visits them in row-major order.
whole_grid(w, h) == [min_x |-> 0, max_x |-> w - 1, min_y |-> 0, max_y |-> h - 1]

in_order(w, h, S) == SelectSeq(row_major(whole_grid(w, h)), LAMBDA c : c \in S)

\* a tile that dropped out loses `explored` together with `visible`
apply_fov_diff_forgetting(T, old, new) ==
    [c \in DOMAIN T |->
        IF c \in old \ new THEN [T[c] EXCEPT !.visible = FALSE, !.explored = FALSE]
        ELSE IF c \in new \ old THEN [T[c] EXCEPT !.visible = TRUE, !.explored = TRUE]
        ELSE T[c]]

\* phase 1: tiles that dropped out lose `visible`; new tiles gain `visible`
\* and `explored`
apply_fov_diff(T, old, new) ==
    [c \in DOMAIN T |->
        IF c \in old \ new THEN [T[c] EXCEPT !.visible = FALSE]
        ELSE IF c \in new \ old THEN [T[c] EXCEPT !.visible = TRUE, !.explored = TRUE]
        ELSE T[c]]

\* the whole new set pushed, not only what entered it
fov_pushes_whole_set(w, h, old, new) == in_order(w, h, old \ new) \o in_order(w, h, new)

fov_pushes(w, h, old, new) == in_order(w, h, old \ new) \o in_order(w, h, new \ old)


(* ------------------------------------------------------------------ *)
(* mutations: digging, pickaxe mining, stone placing                   *)
(* ------------------------------------------------------------------ *)
SolidKinds == {"Grass", "Dirt", "Stone", "Obsidian", "Snow"}

\* only Dirt and Stone count as solid
solid_dirt_stone(T, w, h, tx, ty) ==
    IF ~InBounds(w, h, tx, ty) THEN TRUE ELSE T[<<tx, ty>>].kind \in {"Dirt", "Stone"}

\* solid(): out of bounds counts as solid
solid(T, w, h, tx, ty) ==
    IF ~InBounds(w, h, tx, ty) THEN TRUE ELSE T[<<tx, ty>>].kind \in SolidKinds

\* the in-grid tiles whose anchor is strictly inside the disc of radius r
\* around the world point wp, in the order the two loops visit them
disc_tiles(w, h, wp, r) ==
    LET box == [min_x |-> floor_div(wp[1] - r, TILE_SIZE),
                max_x |-> ceil_div(wp[1] + r, TILE_SIZE),
                min_y |-> world_to_tile_y(h, wp[2] + r),
                max_y |-> world_to_tile_y(h, wp[2] - r)]
    IN  SelectSeq(row_major(box),
            LAMBDA c :
               /\ InBounds(w, h, c[1], c[2])
               /\ LET dx == c[1] * TILE_SIZE - wp[1]
                      dy == tile_to_world_y(h, c[2]) - wp[2]
                  IN  dx * dx + dy * dy < r * r)

\* a dug tile left as Sky
dig_tile_opening_sky(t) == IF t.kind \in SolidKinds THEN [t EXCEPT !.kind = "Sky"] ELSE t

\* what digging_system does to one tile of the disc
dig_tile(t) == IF t.kind \in SolidKinds THEN [t EXCEPT !.kind = "Air"] ELSE t

\* M = [T, q]: the tiles and the mutation queue
dig_one(M, c) ==
    LET t == dig_tile(M.T[c])
    IN  [T |-> [M.T EXCEPT ![c] = t],
         q |-> IF t.kind # M.T[c].kind THEN Append(M.q, c) ELSE M.q]

RECURSIVE dig_all(_, _)
dig_all(M, cs) ==
    IF cs = <<>> THEN M
    ELSE IF Len(cs) = 1 THEN dig_one(M, cs[1])
    ELSE LET m == Len(cs) \div 2
         IN  CHOOSE r \in {dig_all(first, SubSeq(cs, m + 1, Len(cs))) :
                            first \in {dig_all(M, SubSeq(cs, 1, m))}} : TRUE

\* what pickaxe_mining_system does to one tile of the disc
mine_tile(t) ==
    IF t.kind \notin SolidKinds THEN t
    ELSE LET left == t.mine_time - PICKAXE_SPEED
         IN  IF left <= 0 THEN [t EXCEPT !.mine_time = left, !.kind = "Air"]
             ELSE [t EXCEPT !.mine_time = left]

\* the coordinate pushed for every tile the pickaxe works on
mine_one_pushing_every_hit(M, c) ==
    LET t == mine_tile(M.T[c])
    IN  [T |-> [M.T EXCEPT ![c] = t],
         q |-> IF t # M.T[c] THEN Append(M.q, c) ELSE M.q]

mine_one(M, c) ==
    LET t == mine_tile(M.T[c])
    IN  [T |-> [M.T EXCEPT ![c] = t],
         q |-> IF t.kind # M.T[c].kind THEN Append(M.q, c) ELSE M.q]

RECURSIVE mine_all(_, _)
mine_all(M, cs) ==
    IF cs = <<>> THEN M
    ELSE IF Len(cs) = 1 THEN mine_one(M, cs[1])
    ELSE LET m == Len(cs) \div 2
         IN  CHOOSE r \in {mine_all(first, SubSeq(cs, m + 1, Len(cs))) :
                            first \in {mine_all(M, SubSeq(cs, 1, m))}} : TRUE

\* the tile place_stone_system writes
placed_stone(t) == [t EXCEPT !.kind = "Stone", !.mine_time = 30]

\* place_stone_system may build on the tile under the cursor
can_place(T, w, h, tx, ty) ==
    /\ InBounds(w, h, tx, ty)
    /\ T[<<tx, ty>>].kind \in {"Air", "Sky"}
    /\ \E d \in {<<-1, 0>>, <<1, 0>>, <<0, -1>>, <<0, 1>>} :
          solid(T, w, h, tx + d[1], ty + d[2])

(* ------------------------------------------------------------------ *)
(* redraw and sync                                                     *)
(* ------------------------------------------------------------------ *)
\* R = [se, fs, en, spawns, inserts]: the pool state plus the two command
\* buffers of redraw_changed_tiles_system
\* Air handled like Sky: the drawable of an opened tile is hidden and pooled
redraw_one_recycling_air(T, w, R, c) ==
    LET i == idx(w, c[1], c[2]) IN
    IF T[c].kind \in {"Sky", "Air"}
    THEN LET P == recycle(w, [se |-> R.se, fs |-> R.fs, en |-> R.en], c[1], c[2])
         IN  [R EXCEPT !.se = P.se, !.fs = P.fs, !.en = P.en]
    ELSE IF R.se[i] # NoEntity
    THEN [R EXCEPT !.inserts = Append(@, <<R.se[i], c>>)]
    ELSE IF R.fs # <<>>
    THEN LET e == R.fs[Len(R.fs)]
         IN  [R EXCEPT !.inserts = Append(@, <<e, c>>),
                       !.se = [@ EXCEPT ![i] = e],
                       !.fs = SubSeq(@, 1, Len(@) - 1)]
    ELSE [R EXCEPT !.spawns = Append(@, c)]

redraw_one(T, w, R, c) ==
    LET i == idx(w, c[1], c[2]) IN
    IF T[c].kind = "Sky"
    THEN LET P == recycle(w, [se |-> R.se, fs |-> R.fs, en |-> R.en], c[1], c[2])
         IN  [R EXCEPT !.se = P.se, !.fs = P.fs, !.en = P.en]
    ELSE IF R.se[i] # NoEntity
    THEN [R EXCEPT !.inserts = Append(@, <<R.se[i], c>>)]
    ELSE IF R.fs # <<>>
    THEN LET e == R.fs[Len(R.fs)]
         IN  [R EXCEPT !.inserts = Append(@, <<e, c>>),
                       !.se = [@ EXCEPT ![i] = e],
                       !.fs = SubSeq(@, 1, Len(@) - 1)]
    ELSE [R EXCEPT !.spawns = Append(@, c)]

RECURSIVE redraw_all(_, _, _, _)
redraw_all(T, w, R, q) ==
    IF q = <<>> THEN R
    ELSE IF Len(q) = 1 THEN redraw_one(T, w, R, q[1])
    ELSE LET m == Len(q) \div 2
         IN  CHOOSE r \in {redraw_all(T, w, first, SubSeq(q, m + 1, Len(q))) :
                            first \in {redraw_all(T, w, R, SubSeq(q, 1, m))}} : TRUE

\* commands.spawn_batch(spawns)
RECURSIVE spawn_batch(_, _)
spawn_batch(en, cs) ==
    IF cs = <<>> THEN en
    ELSE IF Len(cs) = 1 THEN spawn_tile(en, cs[1][1], cs[1][2])
    ELSE LET m == Len(cs) \div 2
         IN  CHOOSE r \in {spawn_batch(first, SubSeq(cs, m + 1, Len(cs))) :
                            first \in {spawn_batch(en, SubSeq(cs, 1, m))}} : TRUE

\* commands.insert_or_spawn_batch(inserts)
RECURSIVE insert_batch(_, _)
insert_batch(en, ins) ==
    IF ins = <<>> THEN en
    ELSE IF Len(ins) = 1 THEN reparam(en, ins[1][1], ins[1][2][1], ins[1][2][2])
    ELSE LET m == Len(ins) \div 2
         IN  CHOOSE r \in {insert_batch(first, SubSeq(ins, m + 1, Len(ins))) :
                            first \in {insert_batch(en, SubSeq(ins, 1, m))}} : TRUE

\* the redraw spawning for every cell without a drawable, pool or not
redraw_changed_tiles_spawning(T, w, P, q) ==
    LET R == redraw_all(T, w, [se |-> P.se, fs |-> <<>>, en |-> P.en,
                               spawns |-> <<>>, inserts |-> <<>>], q)
    IN  [se |-> R.se, fs |-> P.fs \o R.fs,
         en |-> insert_batch(spawn_batch(R.en, R.spawns), R.inserts)]

\* the body of redraw_changed_tiles_system: the pool state it leaves
redraw_changed_tiles(T, w, P, q) ==
    LET R == redraw_all(T, w, [se |-> P.se, fs |-> P.fs, en |-> P.en,
                               spawns |-> <<>>, inserts |-> <<>>], q)
    IN  [se |-> R.se, fs |-> R.fs,
         en |-> insert_batch(spawn_batch(R.en, R.spawns), R.inserts)]

\* the entities of the query of sync_tile_sprite_entities_system that carry
\* tile i: TileSprite was added since the system last ran
added_at(w, h, en, i) ==
    {e \in DOMAIN en : /\ en[e].added
                       /\ en[e].y < h /\ en[e].x < w
                       /\ idx(w, en[e].x, en[e].y) = i}

\* the grid sync_tile_sprite_entities_system leaves: a slot with added
\* entities holds the one the query yields last.  The tile drawables share
\* one archetype and are never despawned, so the query yields them in the
\* order they were spawned.
synced(w, h, en, se) ==
    [i \in DOMAIN se |->
        IF added_at(w, h, en, i) = {} THEN se[i]
        ELSE CHOOSE e \in added_at(w, h, en, i) :
                \A f \in added_at(w, h, en, i) : f <= e]

(* ------------------------------------------------------------------ *)
(* the systems                                                         *)
(* ------------------------------------------------------------------ *)
\* never written by the systems of terrain.rs, visibility.rs and player.rs
fixed == <<height_map, width, height, window, done, frame, gen, viewer, loaded,
           PREV, touched,
           rect_written>>

pool_vars == <<sprite_entities, free_sprites, entities>>

view_vars == <<player_tile, pt_changed, vis_set>>

\* the app runs the systems of the schedule one after the other, each to its
\* end, once per frame: system s is the next to run, and the frame starts
\* over after its last system
scheduled(s) ==
    /\ frame[pc] = s
    /\ pc' = IF pc = Len(frame) THEN 1 ELSE pc + 1

\* the steps physics_and_collision_system moves the player by: a tile in x
\* or y, or half a tile in x
Steps == {<<TILE_SIZE, 0>>, <<-TILE_SIZE, 0>>, <<0, TILE_SIZE>>, <<0, -TILE_SIZE>>,
          <<6, 0>>, <<-6, 0>>}

\* translations inside the world
InWorld(w, h, p) ==
    /\ p[1] >= 0 /\ p[1] < w * TILE_SIZE
    /\ p[2] >= 0 /\ p[2] < h * TILE_SIZE

\* physics_and_collision_system leaves the player in place or moves it; the
\* velocity integration is abstracted to the choice of the step, the
\* collision test to the tile the player ends on
physics_and_collision_system ==
    /\ scheduled("physics_and_collision_system")
    /\ \/ UNCHANGED <<player_pos, inputs>>
       \/ /\ inputs < MaxInputs
          /\ viewer.player
          /\ inputs' = inputs + 1
          /\ \E d \in Steps :
                LET p == <<player_pos[1] + d[1], player_pos[2] + d[2]>>
                    t == <<floor_div(p[1], TILE_SIZE), world_to_tile_y(height, p[2])>>
                IN  /\ InWorld(width, height, p)
                    /\ ~solid(tiles, width, height, t[1], t[2])
                    /\ player_pos' = p
    /\ UNCHANGED <<tiles, changed_tiles, pool_vars, rect, last_rect, cam_pos,
                   view_vars, fixed>>

\* the translation camera_follow_system gives the camera
camera_target(w, h, win, p) ==
    LET half_w  == win[1] \div 2
        half_h  == win[2] \div 2
        world_w == w * TILE_SIZE
        world_h == h * TILE_SIZE
    IN  <<clamp(p[1], half_w, world_w - half_w),
          clamp(p[2], half_h, world_h - half_h)>>

camera_follow_system ==
    /\ scheduled("camera_follow_system")
    /\ cam_pos' = IF viewer.cam /\ viewer.player
                  THEN camera_target(width, height, window, player_pos)
                  ELSE cam_pos
    /\ UNCHANGED <<tiles, changed_tiles, pool_vars, rect, last_rect, player_pos,
                   view_vars, inputs, fixed>>

\* the rectangle update_active_rect_system computes
active_rect(w, h, win, cam) ==
    LET pad_x == ceil_div(win[1], 2 * TILE_SIZE) + ACTIVE_MARGIN
        pad_y == ceil_div(win[2], 2 * TILE_SIZE) + ACTIVE_MARGIN
        px    == round_div(cam[1], TILE_SIZE)
        py    == world_to_tile_y(h, cam[2])
    IN  [min_x |-> clamp(px - pad_x, 0, w - 1),
         max_x |-> clamp(px + pad_x, 0, w - 1),
         min_y |-> clamp(py - pad_y, 0, h - 1),
         max_y |-> clamp(py + pad_y, 0, h - 1)]

\* every run writing the resource
rect_write_always(old, new) == TRUE

\* match rect_res { Some(mut r) if *r != new => *r = new,
\*                  None => commands.insert_resource(new), _ => {} }:
\* whether the resource is written
rect_write(old, new) ==
    IF old # NoRect /\ old # new THEN TRUE
    ELSE IF old = NoRect THEN TRUE
    ELSE FALSE

update_active_rect_system ==
    /\ scheduled("update_active_rect_system")
    /\ IF viewer.cam
       THEN \E new \in {active_rect(width, height, window, cam_pos)} :
               /\ rect_written' = rect_write(rect, new)
               /\ rect' = IF rect_written' THEN new ELSE rect
       ELSE UNCHANGED <<rect, rect_written>>
    /\ UNCHANGED <<tiles, changed_tiles, pool_vars, last_rect, player_pos,
                   cam_pos, view_vars, inputs, height_map, width, height,
                   window, done, frame, gen, viewer, loaded, PREV, touched>>

\* the previous rectangle never consulted: every call scans the rectangle
\* as the first one does
stream_tiles_system_scanning ==
    /\ scheduled("stream_tiles_system")
    /\ rect # NoRect
    /\ \E P \in {stream_tiles(tiles, width, height, Pool, NoRect, rect)} :
           /\ sprite_entities' = P.se
           /\ free_sprites' = P.fs
           /\ entities' = P.en
    /\ last_rect' = rect
    /\ rect_written' = FALSE
    /\ UNCHANGED <<tiles, changed_tiles, rect, player_pos, cam_pos, view_vars,
                   inputs, height_map, width, height, window, done, frame, gen,
                   viewer, loaded, PREV, touched>>

stream_tiles_system ==
    /\ scheduled("stream_tiles_system")
    /\ rect # NoRect
    /\ \E P \in {stream_tiles(tiles, width, height, Pool, last_rect, rect)} :
           /\ sprite_entities' = P.se
           /\ free_sprites' = P.fs
           /\ entities' = P.en
    /\ last_rect' = rect
    /\ rect_written' = FALSE
    /\ UNCHANGED <<tiles, changed_tiles, rect, player_pos, cam_pos, view_vars,
                   inputs, height_map, width, height, window, done, frame, gen,
                   viewer, loaded, PREV, touched>>

\* the tile the player stands on
tile_of(h, p) == <<floor_div(p[1], TILE_SIZE), world_to_tile_y(h, p[2])>>

\* the resource is assigned, and so marked, on every run
marks_always(old, new) == TRUE

\* the change mark detect_player_tile_change_system leaves on PlayerTile
marks_changed(old, new) == old # new

detect_player_tile_change_system ==
    LET n == tile_of(height, player_pos)
    IN  /\ scheduled("detect_player_tile_change_system")
        /\ player_tile' = IF viewer.player THEN n ELSE player_tile
        /\ pt_changed' = (pt_changed
                          \/ (viewer.player /\ marks_changed(player_tile, n)))
        /\ UNCHANGED <<tiles, changed_tiles, pool_vars, rect, last_rect,
                       player_pos, cam_pos, vis_set, inputs, fixed>>

\* recompute_fov_system storing the new set on top of the old one
recompute_fov_system_piling_up ==
    /\ scheduled("recompute_fov_system")
    /\ IF ~pt_changed
       THEN UNCHANGED <<tiles, changed_tiles, vis_set, pt_changed>>
       ELSE \E new \in {new_visible(tiles, width, height, height_map,
                                    player_tile[1], player_tile[2])} :
                /\ tiles' = apply_fov_diff(tiles, vis_set, new)
                /\ changed_tiles' = changed_tiles \o fov_pushes(width, height, vis_set, new)
                /\ vis_set' = vis_set \cup new
                /\ pt_changed' = FALSE
    /\ UNCHANGED <<pool_vars, rect, last_rect, player_pos, cam_pos, player_tile,
                   inputs, fixed>>

recompute_fov_system ==
    /\ scheduled("recompute_fov_system")
    /\ IF ~pt_changed
       THEN UNCHANGED <<tiles, changed_tiles, vis_set, pt_changed>>
       ELSE \E new \in {new_visible(tiles, width, height, height_map,
                                    player_tile[1], player_tile[2])} :
                /\ tiles' = apply_fov_diff(tiles, vis_set, new)
                /\ changed_tiles' = changed_tiles \o fov_pushes(width, height, vis_set, new)
                /\ vis_set' = new
                /\ pt_changed' = FALSE
    /\ UNCHANGED <<pool_vars, rect, last_rect, player_pos, cam_pos, player_tile,
                   inputs, fixed>>

\* where the mouse cursor may point: the centre of the window or half the
\* window away from it along an axis
CursorOffsets(win) ==
    {<<0, 0>>, <<win[1] \div 2, 0>>, <<-(win[1] \div 2), 0>>,
     <<0, win[2] \div 2>>, <<0, -(win[2] \div 2)>>}

\* viewport_to_world_2d of a cursor position
Cursors == {<<cam_pos[1] + o[1], cam_pos[2] + o[2]>> : o \in CursorOffsets(window)}

\* the left button is up, or it is down and the disc under the cursor is dug
digging_system ==
    /\ scheduled("digging_system")
    /\ \/ UNCHANGED <<tiles, changed_tiles, inputs>>
       \/ /\ inputs < MaxInputs
          /\ inputs' = inputs + 1
          /\ \E world \in Cursors :
                \E M \in {dig_all([T |-> tiles, q |-> changed_tiles],
                                  disc_tiles(width, height, world, DIG_RADIUS))} :
                    tiles' = M.T /\ changed_tiles' = M.q
    /\ UNCHANGED <<pool_vars, rect, last_rect, player_pos, cam_pos, view_vars,
                   fixed>>

\* nothing to do, or the player holds the pickaxe (Inventory.selected) and
\* the left button is down
pickaxe_mining_system ==
    /\ scheduled("pickaxe_mining_system")
    /\ \/ UNCHANGED <<tiles, changed_tiles, inputs>>
       \/ /\ inputs < MaxInputs
          /\ inputs' = inputs + 1
          /\ \E world \in Cursors :
                \E M \in {mine_all([T |-> tiles, q |-> changed_tiles],
                                   disc_tiles(width, height, world, MINING_RADIUS))} :
                    tiles' = M.T /\ changed_tiles' = M.q
    /\ UNCHANGED <<pool_vars, rect, last_rect, player_pos, cam_pos, view_vars,
                   fixed>>

\* nothing to do, or the player holds a stone block and the left button was
\* just pressed over a tile that can take it
place_stone_system ==
    /\ scheduled("place_stone_system")
    /\ \/ UNCHANGED <<tiles, changed_tiles, inputs>>
       \/ /\ inputs < MaxInputs
          /\ inputs' = inputs + 1
          /\ \E world \in Cursors :
                LET tx == floor_div(world[1], TILE_SIZE)
                    ty == world_to_tile_y(height, world[2])
                IN  /\ can_place(tiles, width, height, tx, ty)
                    /\ tiles' = [tiles EXCEPT ![<<tx, ty>>] = placed_stone(@)]
                    /\ changed_tiles' = Append(changed_tiles, <<tx, ty>>)
    /\ UNCHANGED <<pool_vars, rect, last_rect, player_pos, cam_pos, view_vars,
                   fixed>>

redraw_changed_tiles_system ==
    /\ scheduled("redraw_changed_tiles_system")
    /\ \E P \in {redraw_changed_tiles(tiles, width, Pool, changed_tiles)} :
           /\ sprite_entities' = P.se
           /\ free_sprites' = P.fs
           /\ entities' = P.en
    /\ changed_tiles' = <<>>
    /\ UNCHANGED <<tiles, rect, last_rect, player_pos, cam_pos, view_vars,
                   inputs, fixed>>

sync_tile_sprite_entities_system ==
    /\ scheduled("sync_tile_sprite_entities_system")
    /\ sprite_entities' = synced(width, height, entities, sprite_entities)
    /\ entities' = [e \in DOMAIN entities |-> [entities[e] EXCEPT !.added = FALSE]]
    /\ UNCHANGED <<tiles, changed_tiles, free_sprites, rect, last_rect,
                   player_pos, cam_pos, view_vars, inputs, fixed>>

(* ------------------------------------------------------------------ *)
(* the state after startup                                             *)
(* ------------------------------------------------------------------ *)
\* the generated worlds the model starts from, as a surface row per column
\* and the cells the cavern carvers opened: a flat surface on the bottom row,
\* or a surface alternating between the two bottom rows with one cave cell
Worlds(w, h) ==
    {[hm |-> [x \in 0 .. w - 1 |-> h - 1], caves |-> {}],
     [hm |-> [x \in 0 .. w - 1 |-> IF x % 2 = 0 THEN h - 1 ELSE h - 2],
      caves |-> {<<1, h - 1>>}]}

\* the window is one tile wide and high
WindowSizes == {<<TILE_SIZE, TILE_SIZE>>}

PLAYER_HEIGHT == 16

\* the player spawns standing on the surface of the middle column
spawn_pos(w, h, hm) ==
    <<(w \div 2) * TILE_SIZE,
      tile_to_world_y(h, hm[w \div 2]) + TILE_SIZE \div 2 + PLAYER_HEIGHT \div 2 + 4>>

\* generate_world_and_player and startup_fov_system have run on a w x h grid
Started(w, h, worlds, systems) ==
    /\ frame = systems
    /\ pc = 1
    /\ width = w
    /\ height = h
    /\ \E g \in worlds :
          /\ height_map = g.hm
          /\ tiles = generated_tiles(w, h, g.hm, g.caves)
    /\ sprite_entities = [i \in 0 .. w * h - 1 |-> NoEntity]
    /\ free_sprites = <<>>
    /\ changed_tiles = <<>>
    /\ entities = <<>>
    /\ rect = NoRect
    /\ last_rect = NoRect
    /\ window \in WindowSizes
    /\ player_pos = spawn_pos(w, h, height_map)
    /\ cam_pos = <<0, 0>>
    /\ player_tile = tile_of(h, player_pos)
    /\ pt_changed = TRUE
    /\ vis_set = {}
    /\ done = FALSE
    /\ gen = GenOver
    /\ viewer = [cam |-> TRUE, player |-> TRUE]
    /\ loaded = NoWindow
    /\ PREV = NoWindow
    /\ touched = Untouched
    /\ rect_written = FALSE
    /\ inputs = 0

\* the systems of a frame: the player's body and the tools act, the camera
\* follows, the window is streamed, the view is recomputed and the queue is
\* redrawn.  The new drawables are recorded at the end of the frame or right
\* after streaming.
FrameOrders ==
    {<<"physics_and_collision_system", "digging_system", "pickaxe_mining_system",
       "place_stone_system", "camera_follow_system", "update_active_rect_system",
       "stream_tiles_system", "detect_player_tile_change_system",
       "recompute_fov_system", "redraw_changed_tiles_system",
       "sync_tile_sprite_entities_system">>,
     <<"physics_and_collision_system", "digging_system", "pickaxe_mining_system",
       "place_stone_system", "camera_follow_system", "update_active_rect_system",
       "stream_tiles_system", "sync_tile_sprite_entities_system",
       "detect_player_tile_change_system", "recompute_fov_system",
       "redraw_changed_tiles_system">>}

Init == \E f \in FrameOrders : Started(Width, Height, Worlds(Width, Height), f)

Next ==
    \/ physics_and_collision_system
    \/ camera_follow_system
    \/ update_active_rect_system
    \/ stream_tiles_system
    \/ detect_player_tile_change_system
    \/ recompute_fov_system
    \/ digging_system
    \/ pickaxe_mining_system
    \/ place_stone_system
    \/ redraw_changed_tiles_system
    \/ sync_tile_sprite_entities_system

Spec == Init /\ [][Next]_vars

(* ------------------------------------------------------------------ *)
(* streaming alone: the camera follows the player and the window is    *)
(* streamed, the grid is not mutated                                   *)
(* ------------------------------------------------------------------ *)
StreamOrder ==
    <<"physics_and_collision_system", "camera_follow_system",
      "update_active_rect_system", "stream_tiles_system">>

InitStream == Started(Width, Height, Worlds(Width, Height), StreamOrder)

NextStream ==
    \/ physics_and_collision_system
    \/ camera_follow_system
    \/ update_active_rect_system
    \/ stream_tiles_system

SpecStream == InitStream /\ [][NextStream]_vars

\* cells that hold a live drawable
Live == {c \in Cells(width, height) : sprite_entities[idx(width, c[1], c[2])] # NoEntity}

\* what a scan of the whole rectangle from scratch materializes
Rescan(r) == {c \in Cells(width, height) :
                 InRect(r, c[1], c[2]) /\ tiles[c].kind # "Sky"}

slots_of(e) == {i \in DOMAIN sprite_entities : sprite_entities[i] = e}

\* handle e is on the free stack
pooled(e) == \E k \in DOMAIN free_sprites : free_sprites[k] = e

C5_OpenCellsHaveNoMineTime ==
    \A c \in Cells(width, height) :
        tiles[c].kind \in {"Air", "Sky"} => tiles[c].mine_time = 0

\* a frame has run to its end: the last system of the schedule has run and
\* the window is set
EndOfFrame == pc = 1 /\ rect # NoRect

\* C8: at the end of a frame no cell outside the Active Rectangle holds a
\* live drawable
C8_NoDrawableOutsideRect ==
    EndOfFrame => \A c \in Live : InRect(rect, c[1], c[2])

(* ------------------------------------------------------------------ *)
(* main.rs: the single-file revision, which keeps no pool              *)
(* ------------------------------------------------------------------ *)
MAIN_TILE_SIZE == 8

MAIN_DIG_RADIUS == 16

MAIN_PLAYER_HEIGHT == 18

main_tile_to_world_y(terrain_h, tile_y) == (terrain_h - 1 - tile_y) * MAIN_TILE_SIZE

main_world_to_tile_y(terrain_h, world_y) ==
    terrain_h - 1 - floor_div(world_y, MAIN_TILE_SIZE)

\* the ground of main.rs: Sky above the surface row, Air where the cave
\* noise is high, Stone deeper than a quarter of the height, Dirt otherwise
main_column_kind(h, hm, caves, x, y) ==
    IF y < hm[x] THEN "Sky"
    ELSE IF <<x, y>> \in caves THEN "Air"
    ELSE IF y - hm[x] > h \div 4 THEN "Stone"
    ELSE "Dirt"

main_generated_tiles(w, h, hm, caves) ==
    [c \in Cells(w, h) |->
        [kind |-> main_column_kind(h, hm, caves, c[1], c[2]),
         visible |-> FALSE, explored |-> FALSE, mine_time |-> 0]]

\* the worlds main.rs starts from: the surface on row 1, flat or stepping
\* down in the odd columns, with one cave cell
MainWorlds(w, h) ==
    {[hm |-> [x \in 0 .. w - 1 |-> 1], caves |-> {}],
     [hm |-> [x \in 0 .. w - 1 |-> IF x % 2 = 0 THEN 1 ELSE 2],
      caves |-> {<<0, h - 1>>}]}

main_spawn_pos(w, h, hm) ==
    <<(w \div 2) * MAIN_TILE_SIZE,
      main_tile_to_world_y(h, hm[w \div 2]) + MAIN_TILE_SIZE \div 2
          + MAIN_PLAYER_HEIGHT \div 2>>

\* spawn_tile of main.rs, stored into the slot by its caller
main_spawn_at(w, P, c) ==
    [se |-> [P.se EXCEPT ![idx(w, c[1], c[2])] = Len(P.en) + 1],
     fs |-> P.fs,
     en |-> spawn_tile(P.en, c[1], c[2])]

main_spawn_one(T, w, P, c) ==
    IF T[c].kind \in {"Dirt", "Stone"} THEN main_spawn_at(w, P, c) ELSE P

RECURSIVE main_spawn_all(_, _, _, _)
main_spawn_all(T, w, P, cs) ==
    IF cs = <<>> THEN P
    ELSE IF Len(cs) = 1 THEN main_spawn_one(T, w, P, cs[1])
    ELSE LET m == Len(cs) \div 2
         IN  CHOOSE r \in {main_spawn_all(T, w, first, SubSeq(cs, m + 1, Len(cs))) :
                            first \in {main_spawn_all(T, w, P, SubSeq(cs, 1, m))}} : TRUE

main_spawn_initial_tiles ==
    /\ scheduled("spawn_initial_tiles")
    /\ IF done THEN UNCHANGED <<sprite_entities, entities, done>>
       ELSE /\ \E P \in {main_spawn_all(tiles, width, Pool,
                                         row_major(whole_grid(width, height)))} :
                 /\ sprite_entities' = P.se
                 /\ entities' = P.en
            /\ done' = TRUE
    /\ UNCHANGED <<tiles, height_map, width, height, free_sprites,
                   changed_tiles, rect, last_rect, window, player_pos,
                   cam_pos, view_vars, frame, inputs, gen, viewer, loaded, PREV, touched,
                   rect_written>>

\* the old drawable of a changed tile is despawned and a Dirt or Stone tile
\* gets a new one
main_redraw_one(T, w, P, c) ==
    LET i == idx(w, c[1], c[2])
        e == P.se[i]
        Q == IF e = NoEntity THEN P
             ELSE [se |-> [P.se EXCEPT ![i] = NoEntity],
                   fs |-> P.fs,
                   en |-> [P.en EXCEPT ![e] = [@ EXCEPT !.alive = FALSE]]]
    IN  IF T[c].kind \in {"Dirt", "Stone"} THEN main_spawn_at(w, Q, c) ELSE Q

RECURSIVE main_redraw_all(_, _, _, _)
main_redraw_all(T, w, P, q) ==
    IF q = <<>> THEN P
    ELSE IF Len(q) = 1 THEN main_redraw_one(T, w, P, q[1])
    ELSE LET m == Len(q) \div 2
         IN  CHOOSE r \in {main_redraw_all(T, w, first, SubSeq(q, m + 1, Len(q))) :
                            first \in {main_redraw_all(T, w, P, SubSeq(q, 1, m))}} : TRUE

main_redraw_changed_tiles_system ==
    /\ scheduled("redraw_changed_tiles_system")
    /\ \E P \in {main_redraw_all(tiles, width, Pool, changed_tiles)} :
          /\ sprite_entities' = P.se
          /\ entities' = P.en
    /\ changed_tiles' = <<>>
    /\ UNCHANGED <<tiles, height_map, width, height, free_sprites, rect,
                   last_rect, window, player_pos, cam_pos, view_vars, done,
                   frame, inputs, gen, viewer, loaded, PREV, touched,
                   rect_written>>

\* tiles of the grid whose anchor is closer than MAIN_DIG_RADIUS to the
\* cursor, row by row
main_disc_tiles(w, h, wp) ==
    SelectSeq(row_major(whole_grid(w, h)),
        LAMBDA c :
            LET dx == c[1] * MAIN_TILE_SIZE - wp[1]
                dy == main_tile_to_world_y(h, c[2]) - wp[2]
            IN  /\ c[1] >= floor_div(wp[1] - MAIN_DIG_RADIUS, MAIN_TILE_SIZE)
                /\ c[1] <= ceil_div(wp[1] + MAIN_DIG_RADIUS, MAIN_TILE_SIZE)
                /\ c[2] >= main_world_to_tile_y(h, wp[2] + MAIN_DIG_RADIUS)
                /\ c[2] <= main_world_to_tile_y(h, wp[2] - MAIN_DIG_RADIUS)
                /\ dx * dx + dy * dy < MAIN_DIG_RADIUS * MAIN_DIG_RADIUS)

main_dig_tile(t) ==
    IF t.kind \in {"Dirt", "Stone"} THEN [t EXCEPT !.kind = "Air"] ELSE t

main_dig_one(M, c) ==
    LET t == main_dig_tile(M.T[c])
    IN  [T |-> [M.T EXCEPT ![c] = t],
         q |-> IF t # M.T[c] THEN Append(M.q, c) ELSE M.q]

RECURSIVE main_dig_all(_, _)
main_dig_all(M, cs) ==
    IF cs = <<>> THEN M
    ELSE IF Len(cs) = 1 THEN main_dig_one(M, cs[1])
    ELSE LET m == Len(cs) \div 2
         IN  CHOOSE r \in {main_dig_all(first, SubSeq(cs, m + 1, Len(cs))) :
                            first \in {main_dig_all(M, SubSeq(cs, 1, m))}} : TRUE

main_digging_system ==
    /\ scheduled("digging_system")
    /\ \/ UNCHANGED <<tiles, changed_tiles, inputs>>
       \/ /\ inputs < MaxInputs
          /\ inputs' = inputs + 1
          /\ \E world \in Cursors :
                \E M \in {main_dig_all([T |-> tiles, q |-> changed_tiles],
                                       main_disc_tiles(width, height, world))} :
                    tiles' = M.T /\ changed_tiles' = M.q
    /\ UNCHANGED <<pool_vars, rect, last_rect, player_pos, cam_pos, view_vars,
                   fixed>>

\* solid() of main.rs
main_solid(T, w, h, tx, ty) ==
    IF ~InBounds(w, h, tx, ty) THEN TRUE ELSE T[<<tx, ty>>].kind \in {"Dirt", "Stone"}

\* physics_and_collision_system of main.rs leaves the player in place or
\* moves it by a tile
main_physics_and_collision_system ==
    /\ scheduled("physics_and_collision_system")
    /\ \/ UNCHANGED <<player_pos, inputs>>
       \/ /\ inputs < MaxInputs
          /\ inputs' = inputs + 1
          /\ \E d \in {<<MAIN_TILE_SIZE, 0>>, <<-MAIN_TILE_SIZE, 0>>,
                       <<0, MAIN_TILE_SIZE>>, <<0, -MAIN_TILE_SIZE>>} :
                LET p == <<player_pos[1] + d[1], player_pos[2] + d[2]>>
                IN  /\ p[1] >= 0 /\ p[1] < width * MAIN_TILE_SIZE
                    /\ p[2] >= 0 /\ p[2] < height * MAIN_TILE_SIZE
                    /\ ~main_solid(tiles, width, height,
                                   floor_div(p[1], MAIN_TILE_SIZE),
                                   main_world_to_tile_y(height, p[2]))
                    /\ player_pos' = p
    /\ UNCHANGED <<tiles, changed_tiles, pool_vars, rect, last_rect, cam_pos,
                   view_vars, fixed>>

main_camera_follow_system ==
    /\ scheduled("camera_follow_system")
    /\ cam_pos' = <<clamp(player_pos[1], window[1] \div 2,
                          width * MAIN_TILE_SIZE - window[1] \div 2),
                    clamp(player_pos[2], window[2] \div 2,
                          height * MAIN_TILE_SIZE - window[2] \div 2)>>
    /\ UNCHANGED <<tiles, changed_tiles, pool_vars, rect, last_rect, player_pos,
                   view_vars, inputs, fixed>>

\* main() adds its systems without ordering them: the app may run them in
\* the order they are added or in another one
MainOrders ==
    {<<"spawn_initial_tiles", "physics_and_collision_system", "digging_system",
       "redraw_changed_tiles_system", "camera_follow_system">>,
     <<"camera_follow_system", "redraw_changed_tiles_system", "digging_system",
       "physics_and_collision_system", "spawn_initial_tiles">>}

InitMain ==
    /\ frame \in MainOrders
    /\ pc = 1
    /\ width = Width
    /\ height = Height
    /\ \E g \in MainWorlds(Width, Height) :
          /\ height_map = g.hm
          /\ tiles = main_generated_tiles(Width, Height, g.hm, g.caves)
    /\ sprite_entities = [i \in 0 .. Width * Height - 1 |-> NoEntity]
    /\ free_sprites = <<>>
    /\ changed_tiles = <<>>
    /\ entities = <<>>
    /\ rect = NoRect
    /\ last_rect = NoRect
    /\ window = <<2 * MAIN_TILE_SIZE, 2 * MAIN_TILE_SIZE>>
    /\ player_pos = main_spawn_pos(Width, Height, height_map)
    /\ cam_pos = <<0, 0>>
    /\ player_tile = <<0, 0>>
    /\ pt_changed = FALSE
    /\ vis_set = {}
    /\ done = FALSE
    /\ gen = GenOver
    /\ viewer = [cam |-> TRUE, player |-> TRUE]
    /\ loaded = NoWindow
    /\ PREV = NoWindow
    /\ touched = Untouched
    /\ rect_written = FALSE
    /\ inputs = 0

NextMain ==
    \/ main_spawn_initial_tiles
    \/ main_physics_and_collision_system
    \/ main_camera_follow_system
    \/ main_digging_system
    \/ main_redraw_changed_tiles_system

SpecMain == InitMain /\ [][NextMain]_vars

\* C3: a tile drawable, once created, is never despawned
C3_HandleNeverDestroyed ==
    \A e \in DOMAIN entities : entities[e].alive

(* ------------------------------------------------------------------ *)
(* visibility on a world with a pit: the player stands in a column     *)
(* whose surface lies two rows below its neighbours', so that cells    *)
(* below the surface band come into view and drop out of it            *)
(* ------------------------------------------------------------------ *)
PitWidth == 5

PitHeight == 5

PitWorlds(w, h) ==
    {[hm |-> [x \in 0 .. w - 1 |-> IF x = w \div 2 THEN 2 ELSE 0], caves |-> cs] :
        cs \in {{}, {<<w \div 2, h - 1>>}}}

VisOrder ==
    <<"physics_and_collision_system", "digging_system", "pickaxe_mining_system",
      "place_stone_system", "camera_follow_system",
      "detect_player_tile_change_system", "recompute_fov_system",
      "redraw_changed_tiles_system">>

InitVis == Started(PitWidth, PitHeight, PitWorlds(PitWidth, PitHeight), VisOrder)

NextVis ==
    \/ physics_and_collision_system
    \/ camera_follow_system
    \/ detect_player_tile_change_system
    \/ recompute_fov_system
    \/ digging_system
    \/ pickaxe_mining_system
    \/ place_stone_system
    \/ redraw_changed_tiles_system

SpecVis == InitVis /\ [][NextVis]_vars

\* C4: a cell that is explored stays explored in every step
C4_ExploredMonotonic ==
    [][\A c \in Cells(width, height) : tiles[c].explored => tiles'[c].explored]_vars

\* a cell that was seen has dropped out of view and is still explored
C4_Witness ==
    \E c \in Cells(width, height) :
        tiles[c].explored /\ ~tiles[c].visible /\ c \notin vis_set

\* the view is computed for the tile the player is on
Still == ~pt_changed /\ tile_of(height, player_pos) = player_tile

\* the flags recompute_fov_system writes
fov_flags(T) == [c \in DOMAIN T |-> <<T[c].visible, T[c].explored>>]

\* C9: while the player stays on the tile the view was computed for, a run of
\* detect_player_tile_change_system or recompute_fov_system leaves the
\* visible set, the visible and explored flags and the mutation queue alone,
\* and PlayerTile unmarked
C9_VisibilityGating ==
    [][(Still /\ (detect_player_tile_change_system \/ recompute_fov_system))
          => /\ vis_set' = vis_set
             /\ fov_flags(tiles') = fov_flags(tiles)
             /\ changed_tiles' = changed_tiles
             /\ ~pt_changed']_vars

\* the player has moved inside the tile the view was computed for
C9_Witness ==
    /\ Still
    /\ vis_set # {}
    /\ player_pos # spawn_pos(width, height, height_map)

\* squared distance of cell c from the player's tile
dist_sq(c) ==
    (c[1] - player_tile[1]) * (c[1] - player_tile[1])
    + (c[2] - player_tile[2]) * (c[2] - player_tile[2])

\* C6 as stated: after recompute_fov_system every coordinate of the visible
\* set is within FOV_RADIUS of the player's tile
C6_RadiusBound ==
    ~pt_changed => \A c \in vis_set : dist_sq(c) <= FOV_RADIUS * FOV_RADIUS

\* C6 amended: after recompute_fov_system every coordinate of the visible set
\* is in the surface band, or at most LIGHT_BLEED_RADIUS columns and rows
\* away from a cell within FOV_RADIUS of the player's tile
C6_RadiusBoundWithBleedAndBand ==
    ~pt_changed =>
        \A c \in vis_set :
            \/ c \in surface_band(width, height, height_map)
            \/ \E n \in Cells(width, height) :
                  /\ dist_sq(n) <= FOV_RADIUS * FOV_RADIUS
                  /\ c[1] - n[1] \in -LIGHT_BLEED_RADIUS .. LIGHT_BLEED_RADIUS
                  /\ c[2] - n[2] \in -LIGHT_BLEED_RADIUS .. LIGHT_BLEED_RADIUS

\* a recomputed view holds a cell beyond the radius and below the band, and
\* leaves out another
C6_Witness ==
    /\ ~pt_changed
    /\ \E c \in vis_set :
          /\ dist_sq(c) > FOV_RADIUS * FOV_RADIUS
          /\ c \notin surface_band(width, height, height_map)
    /\ vis_set # Cells(width, height)

\* C7: after every recomputation every coordinate of the visible set lies in
\* the Active Rectangle
C7_VisibleInsideActiveRect ==
    [][(pt_changed /\ rect # NoRect /\ recompute_fov_system)
          => \A c \in vis_set' : InRect(rect, c[1], c[2])]_vars

(* ------------------------------------------------------------------ *)
(* shadow casting on fixtures: an open grid with a single wall tile    *)
(* ------------------------------------------------------------------ *)
FixtureWidth == 3

FixtureHeight == 4

FixtureRadius == 4

\* an open grid of Air with one Stone tile
fixture_tiles(w, h, wall) ==
    [c \in Cells(w, h) |->
        IF c = wall
        THEN [kind |-> "Stone", visible |-> FALSE, explored |-> FALSE,
              mine_time |-> mine_time_of("Stone")]
        ELSE [kind |-> "Air", visible |-> FALSE, explored |-> FALSE,
              mine_time |-> 0]]

FovOrder == <<"detect_player_tile_change_system", "recompute_fov_system">>

\* the player stands anywhere off the wall
InitFov ==
    /\ frame = FovOrder
    /\ pc = 1
    /\ width = FixtureWidth
    /\ height = FixtureHeight
    /\ height_map = [x \in 0 .. FixtureWidth - 1 |-> 0]
    /\ \E wall \in Cells(FixtureWidth, FixtureHeight) :
          /\ tiles = fixture_tiles(FixtureWidth, FixtureHeight, wall)
          /\ \E a \in Cells(FixtureWidth, FixtureHeight) \ {wall} :
                player_pos = <<a[1] * TILE_SIZE,
                               tile_to_world_y(FixtureHeight, a[2]) + TILE_SIZE \div 2>>
    /\ sprite_entities = [i \in 0 .. FixtureWidth * FixtureHeight - 1 |-> NoEntity]
    /\ free_sprites = <<>>
    /\ changed_tiles = <<>>
    /\ entities = <<>>
    /\ rect = NoRect
    /\ last_rect = NoRect
    /\ window \in WindowSizes
    /\ cam_pos = <<0, 0>>
    /\ player_tile = tile_of(height, player_pos)
    /\ pt_changed = TRUE
    /\ vis_set = {}
    /\ done = FALSE
    /\ gen = GenOver
    /\ viewer = [cam |-> TRUE, player |-> TRUE]
    /\ loaded = NoWindow
    /\ PREV = NoWindow
    /\ touched = Untouched
    /\ rect_written = FALSE
    /\ inputs = 0

\* the fixture is a viewer at rest: the view is computed once for its tile
NextFov ==
    \/ detect_player_tile_change_system
    \/ recompute_fov_system

SpecFov == InitFov /\ [][NextFov]_vars

\* what the eight casts light for a viewer on tile a
visible_from(a) == lit_tiles(tiles, width, height, a[1], a[2], FixtureRadius)

\* the larger and the smaller of two fractions
later(p, q) == IF slope_lt(p, q) THEN q ELSE p

earlier(p, q) == IF slope_lt(p, q) THEN p ELSE q

\* the part of the segment from a to b, as an interval of its parameter,
\* that lies in the open column (or row) of width 1 around coordinate c
enters(a, d, c) == IF d > 0 THEN <<2 * (c - a) - 1, 2 * d>>
                   ELSE <<-(2 * (c - a) + 1), -(2 * d)>>

leaves(a, d, c) == IF d > 0 THEN <<2 * (c - a) + 1, 2 * d>>
                   ELSE <<-(2 * (c - a) - 1), -(2 * d)>>

\* the straight segment between the centres of tiles a and b passes through
\* the inside of tile c
crosses(a, b, c) ==
    LET dx  == b[1] - a[1]
        dy  == b[2] - a[2]
        lo1 == IF dx # 0 THEN later(<<0, 1>>, enters(a[1], dx, c[1])) ELSE <<0, 1>>
        hi1 == IF dx # 0 THEN earlier(<<1, 1>>, leaves(a[1], dx, c[1])) ELSE <<1, 1>>
        lo2 == IF dy # 0 THEN later(lo1, enters(a[2], dy, c[2])) ELSE lo1
        hi2 == IF dy # 0 THEN earlier(hi1, leaves(a[2], dy, c[2])) ELSE hi1
    IN  /\ dx # 0 \/ a[1] = c[1]
        /\ dy # 0 \/ a[2] = c[2]
        /\ slope_lt(lo2, hi2)

\* no opaque tile lies strictly between a and b
clear_between(a, b) ==
    \A c \in Cells(width, height) \ {a, b} :
        crosses(a, b, c) => ~opaque(tiles[c].kind)

\* C10: if tile b is lit for the viewer on the player's tile and no opaque
\* tile lies strictly between the two, then the player's tile is lit for a
\* viewer on b
C10_ShadowcastSymmetry ==
    \A b \in visible_from(player_tile) :
        clear_between(player_tile, b) => player_tile \in visible_from(b)

\* the view is recomputed; the viewer sees a tile across the wall that does
\* not see the viewer, and sees another tile with nothing opaque in between
C10_Witness ==
    /\ ~pt_changed
    /\ vis_set # {}
    /\ \E b \in visible_from(player_tile) :
          /\ ~clear_between(player_tile, b)
          /\ player_tile \notin visible_from(b)
    /\ \E b \in visible_from(player_tile) \ {player_tile} :
          /\ clear_between(player_tile, b)
          /\ player_tile \in visible_from(b)


(* ------------------------------------------------------------------ *)
(* scenes for the field of view: a shaft with one solid tile in it,    *)
(* and a flat open row                                                 *)
(* ------------------------------------------------------------------ *)
ShaftWidth == 3

ShaftHeight == 8

ShaftRadius == 8

RowWidth == 11

\* a grid of Air with at most one tile of a solid kind
scene_tiles(w, h, wall, kind) ==
    [c \in Cells(w, h) |->
        IF c = wall
        THEN [kind |-> kind, visible |-> FALSE, explored |-> FALSE,
              mine_time |-> mine_time_of(kind)]
        ELSE [kind |-> "Air", visible |-> FALSE, explored |-> FALSE,
              mine_time |-> 0]]

\* the shaft with a solid tile anywhere in it, or the open row
Scenes ==
    {[w |-> ShaftWidth, h |-> ShaftHeight,
      T |-> scene_tiles(ShaftWidth, ShaftHeight, wall, kind)] :
        wall \in Cells(ShaftWidth, ShaftHeight), kind \in SolidKinds}
    \cup {[w |-> RowWidth, h |-> 1,
           T |-> scene_tiles(RowWidth, 1, <<-1, -1>>, "Air")]}

\* the player stands on any tile of Air
InitScene ==
    /\ frame = FovOrder
    /\ pc = 1
    /\ \E s \in Scenes :
          /\ width = s.w
          /\ height = s.h
          /\ height_map = [x \in 0 .. s.w - 1 |-> 0]
          /\ tiles = s.T
          /\ sprite_entities = [i \in 0 .. s.w * s.h - 1 |-> NoEntity]
          /\ \E a \in {c \in Cells(s.w, s.h) : s.T[c].kind = "Air"} :
                player_pos = <<a[1] * TILE_SIZE,
                               tile_to_world_y(s.h, a[2]) + TILE_SIZE \div 2>>
    /\ free_sprites = <<>>
    /\ changed_tiles = <<>>
    /\ entities = <<>>
    /\ rect = NoRect
    /\ last_rect = NoRect
    /\ window \in WindowSizes
    /\ cam_pos = <<0, 0>>
    /\ player_tile = tile_of(height, player_pos)
    /\ pt_changed = TRUE
    /\ vis_set = {}
    /\ done = FALSE
    /\ gen = GenOver
    /\ viewer = [cam |-> TRUE, player |-> TRUE]
    /\ loaded = NoWindow
    /\ PREV = NoWindow
    /\ touched = Untouched
    /\ rect_written = FALSE
    /\ inputs = 0

SpecScene == InitScene /\ [][NextFov]_vars

\* the tile five tiles south of the viewer
occluder == <<player_tile[1], player_tile[2] + 5>>

\* the grid has a tile five tiles south of the viewer and it satisfies P
occluder_is(P(_)) ==
    /\ InBounds(width, height, occluder[1], occluder[2])
    /\ P(tiles[occluder].kind)

is_solid_kind(kind) == kind \in SolidKinds

is_dirt_or_stone(kind) == kind \in {"Dirt", "Stone"}

\* the tiles beyond the occluder on the line from the viewer
behind_occluder ==
    {c \in Cells(width, height) : c[1] = player_tile[1] /\ c[2] > occluder[2]}

\* the tiles off that line at the same distances south, inside the radius
beside_occluder ==
    {c \in Cells(width, height) :
        /\ c[1] # player_tile[1]
        /\ c[2] > occluder[2]
        /\ in_radius(c[1] - player_tile[1], c[2] - player_tile[2], ShaftRadius)}

\* what the shadowcaster lights in the shaft, and the visible set there
shaft_lit ==
    lit_tiles(tiles, width, height, player_tile[1], player_tile[2], ShaftRadius)

shaft_visible ==
    visible_within(tiles, width, height, height_map,
                   player_tile[1], player_tile[2], ShaftRadius)

open_row == height = 1 /\ \A c \in Cells(width, height) : tiles[c].kind = "Air"

\* the in-grid tiles at most r columns from the viewer's
row_span(r) ==
    {c \in Cells(width, height) :
        c[1] >= player_tile[1] - r /\ c[1] <= player_tile[1] + r}

C13_OpaqueAgreesWithSolid ==
    \A c \in Cells(width, height) :
        opaque(tiles[c].kind) <=> solid(tiles, width, height, c[1], c[2])

\* C18: solid() is true for every coordinate outside the grid; inside it is
\* true for Grass, Dirt, Stone, Obsidian and Snow and false for Air and Sky
C18_SolidTable ==
    \A x \in -1 .. width, y \in -1 .. height :
        IF x < 0 \/ y < 0 \/ x >= width \/ y >= height
        THEN solid(tiles, width, height, x, y)
        ELSE /\ tiles[<<x, y>>].kind \in {"Grass", "Dirt", "Stone", "Obsidian", "Snow"}
                    => solid(tiles, width, height, x, y)
             /\ tiles[<<x, y>>].kind \in {"Air", "Sky"}
                    => ~solid(tiles, width, height, x, y)

\* the grid was changed by an input and holds Sky, Air, a solid tile that is
\* neither Dirt nor Stone, and one that is
C18_Witness ==
    /\ inputs > 0
    /\ changed_tiles # <<>>
    /\ \E c \in Cells(width, height) : tiles[c].kind = "Sky"
    /\ \E c \in Cells(width, height) : tiles[c].kind = "Air"
    /\ \E c \in Cells(width, height) : tiles[c].kind \in {"Grass", "Obsidian", "Snow"}
    /\ \E c \in Cells(width, height) : tiles[c].kind \in {"Dirt", "Stone"}


(* ------------------------------------------------------------------ *)
(* what one call of stream_tiles_system does to the drawables          *)
(* ------------------------------------------------------------------ *)

\* the handle stored for cell c in the slots se
slot(se, c) == se[idx(width, c[1], c[2])]

\* the cells of the grid inside rectangle a and outside rectangle b
rect_minus(a, b) ==
    {c \in Cells(width, height) : InRect(a, c[1], c[2]) /\ ~InRect(b, c[1], c[2])}

\* C14: a call of stream_tiles_system with previous rectangle P and a
\* different new rectangle N gives a handle (spawned or taken from the pool)
\* only to cells of N minus P, one handle each, and to every non-Sky cell of
\* N minus P; it pools only cells of P minus N; and it leaves the slot and
\* the drawable of every cell in both P and N as they were
C14_StripesOnly ==
    [][(stream_tiles_system /\ last_rect # NoRect /\ last_rect # rect)
          => LET made == {c \in Cells(width, height) :
                            /\ slot(sprite_entities', c) # NoEntity
                            /\ slot(sprite_entities', c) # slot(sprite_entities, c)}
                 gone == {c \in Cells(width, height) :
                            /\ slot(sprite_entities, c) # NoEntity
                            /\ slot(sprite_entities', c) = NoEntity}
                 popped == {k \in DOMAIN free_sprites :
                              \E c \in made : slot(sprite_entities', c) = free_sprites[k]}
             IN  /\ made \subseteq rect_minus(rect, last_rect)
                 /\ gone \subseteq rect_minus(last_rect, rect)
                 /\ \A c \in Cells(width, height) :
                       (InRect(rect, c[1], c[2]) /\ InRect(last_rect, c[1], c[2]))
                          => /\ slot(sprite_entities', c) = slot(sprite_entities, c)
                             /\ slot(sprite_entities, c) # NoEntity
                                   => entities'[slot(sprite_entities, c)]
                                         = entities[slot(sprite_entities, c)]
                 /\ (Len(entities') - Len(entities)) + Cardinality(popped)
                       = Cardinality(made)
                 /\ \A c \in made, d \in made :
                       slot(sprite_entities', c) = slot(sprite_entities', d) => c = d
                 /\ made = {c \in rect_minus(rect, last_rect) : tiles[c].kind # "Sky"}]_vars


\* two pans later: a drawable that left the window is in the pool, a cell
\* that entered it holds a handle taken from the pool, and a cell holds the
\* handle it was spawned with
C14_Witness ==
    /\ last_rect # NoRect
    /\ inputs >= 2
    /\ free_sprites # <<>>
    /\ \E c \in Cells(width, height) :
          /\ slot(sprite_entities, c) # NoEntity
          /\ entities[slot(sprite_entities, c)].vis = "Visible"
    /\ \E c \in Cells(width, height) :
          /\ slot(sprite_entities, c) # NoEntity
          /\ entities[slot(sprite_entities, c)].vis = "Inherited"


(* ------------------------------------------------------------------ *)
(* kind changes and the mutation queue                                 *)
(* ------------------------------------------------------------------ *)

\* how often coordinate c occurs in queue q
occurrences(q, c) == Cardinality({k \in DOMAIN q : q[k] = c})

\* the step is a run of system s: s is the system the schedule is at
running(s) == frame[pc] = s

\* the step is a run of one of the three systems that edit the grid
editing ==
    running("digging_system") \/ running("pickaxe_mining_system")
    \/ running("place_stone_system")

\* what a step appended to the mutation queue
appended == SubSeq(changed_tiles', Len(changed_tiles) + 1, Len(changed_tiles'))

\* C15: a step that changes the kind of a cell appends the cell's coordinate
\* to the mutation queue exactly once in that step; digging_system,
\* pickaxe_mining_system and place_stone_system append nothing else; and a
\* tile the pickaxe worked on is Air afterwards exactly when its mine_time
\* is 0 or below
C15_KindChangeQueuedOnce ==
    [][\A c \in Cells(width, height) :
          /\ tiles'[c].kind # tiles[c].kind
                => /\ Len(changed_tiles') > Len(changed_tiles)
                   /\ SubSeq(changed_tiles', 1, Len(changed_tiles)) = changed_tiles
                   /\ occurrences(appended, c) = 1
                   /\ editing
          /\ (editing /\ tiles'[c].kind = tiles[c].kind)
                => occurrences(changed_tiles', c) = occurrences(changed_tiles, c)
          /\ (running("pickaxe_mining_system") /\ tiles'[c] # tiles[c])
                => (tiles'[c].kind = "Air" <=> tiles'[c].mine_time <= 0)]_vars

\* a tile was worked on with the pickaxe until it broke and its coordinate
\* waits in the mutation queue, once, while another tile has been worked on
\* and still stands
C15_Witness ==
    /\ \E c \in Cells(width, height) :
          /\ tiles[c].kind = "Air"
          /\ tiles[c].mine_time < 0
          /\ occurrences(changed_tiles, c) = 1
    /\ \E c \in Cells(width, height) :
          /\ tiles[c].kind \in SolidKinds
          /\ tiles[c].mine_time > 0
          /\ tiles[c].mine_time < mine_time_of(tiles[c].kind)


(* ------------------------------------------------------------------ *)
(* redraw of a tile that was mined                                     *)
(* ------------------------------------------------------------------ *)

\* cell c was a solid tile and has been mined or dug to Air: the mine time of
\* a tile that generation or carving left open is 0
mined_out(c) == tiles[c].kind = "Air" /\ tiles[c].mine_time # 0

\* the step is a run of the redraw step with the coordinate of a mined-out
\* cell in the queue and a live drawable in the cell's slot
redraws_mined(c) ==
    /\ running("redraw_changed_tiles_system")
    /\ occurrences(changed_tiles, c) > 0
    /\ mined_out(c)
    /\ slot(sprite_entities, c) # NoEntity

\* C16 as stated: after the redraw step processed the coordinate of a tile
\* that was mined to Air and held a live drawable, the drawable is hidden and
\* in the pool and the cell's slot is cleared
C16_MinedDrawableRecycled ==
    [][\A c \in Cells(width, height) :
          redraws_mined(c)
             => /\ slot(sprite_entities', c) = NoEntity
                /\ entities'[slot(sprite_entities, c)].vis = "Hidden"
                /\ \E k \in DOMAIN free_sprites' :
                      free_sprites'[k] = slot(sprite_entities, c)]_vars

\* C16: after the redraw step processed the coordinate of a tile that was
\* mined to Air and held a live drawable, the cell's slot still holds that
\* drawable, which is alive, visible, placed on the cell and not in the pool
C16_MinedDrawableKept ==
    [][\A c \in Cells(width, height) :
          redraws_mined(c)
             => \E e \in {slot(sprite_entities, c)} :
                   /\ slot(sprite_entities', c) = e
                   /\ entities'[e].alive
                   /\ entities'[e].vis = "Visible"
                   /\ entities'[e].x = c[1] /\ entities'[e].y = c[2]
                   /\ \A k \in DOMAIN free_sprites' : free_sprites'[k] # e]_vars

\* the redraw step has just run on a placed Stone tile that was dug to Air:
\* the queue is empty and the cell holds a visible drawable
C16_Witness ==
    /\ pc > 1
    /\ frame[pc - 1] = "redraw_changed_tiles_system"
    /\ changed_tiles = <<>>
    /\ \E c \in Cells(width, height) :
          /\ mined_out(c)
          /\ tiles[c].mine_time = mine_time_of("Stone")
          /\ slot(sprite_entities, c) # NoEntity
          /\ entities[slot(sprite_entities, c)].vis = "Visible"


(* ------------------------------------------------------------------ *)
(* redraw of a queue that holds a coordinate more than once            *)
(* ------------------------------------------------------------------ *)

\* queue q with every occurrence of a coordinate after its first removed
without_duplicates(q) ==
    SelectSeq([k \in DOMAIN q |-> <<k, q[k]>>],
              LAMBDA p : \A j \in 1 .. p[1] - 1 : q[j] # p[2])

\* the pool state after the redraw step ran on queue q and the sprite sync
\* ran after it
redraw_then_sync(q) ==
    LET P == redraw_changed_tiles(tiles, width, Pool, q)
    IN  [se |-> synced(width, height, P.en, P.se), fs |-> P.fs, en |-> P.en]

\* C17 as stated: when the redraw step is about to run, the redraw step
\* followed by the sprite sync leaves the same slots, the same pool and the
\* same number of handles on the queue as on the queue with its duplicates
\* removed
C17_RedrawIgnoresDuplicates ==
    running("redraw_changed_tiles_system") =>
    \E q \in {[k \in DOMAIN without_duplicates(changed_tiles) |->
                  without_duplicates(changed_tiles)[k][2]]} :
        \E A \in {redraw_then_sync(changed_tiles)}, B \in {redraw_then_sync(q)} :
            /\ A.se = B.se
            /\ A.fs = B.fs
            /\ Len(A.en) = Len(B.en)


(* ------------------------------------------------------------------ *)
(* the first call of stream_tiles_system and calls with the rectangle  *)
(* unchanged                                                           *)
(* ------------------------------------------------------------------ *)

\* C19: a call of stream_tiles_system with the Active Rectangle equal to the
\* stored previous rectangle changes no slot, no drawable, nothing in the
\* pool and not the stored rectangle
C19_EarlyOut ==
    [][(running("stream_tiles_system") /\ last_rect = rect)
          => UNCHANGED <<sprite_entities, free_sprites, entities, last_rect>>]_vars

\* stream_tiles_system is about to run with the rectangle of its last call,
\* with live drawables and with a drawable that the redraw step spawned for
\* a cell of the rectangle and that the sprite sync has not yet stored in its
\* slot
C19_Witness ==
    /\ running("stream_tiles_system")
    /\ rect # NoRect
    /\ last_rect = rect
    /\ Live # {}
    /\ \E e \in DOMAIN entities :
          /\ entities[e].added
          /\ InRect(rect, entities[e].x, entities[e].y)
          /\ slot(sprite_entities, <<entities[e].x, entities[e].y>>) = NoEntity

\* C20: the call of stream_tiles_system that finds no previous rectangle
\* leaves a live drawable, placed on the cell, in the slot of every non-Sky
\* cell of the rectangle and in no other slot, and stores the rectangle as
\* the previous one
C20_FirstPopulate ==
    [][(running("stream_tiles_system") /\ last_rect = NoRect)
          => /\ \A c \in Cells(width, height) :
                   IF InRect(rect, c[1], c[2]) /\ tiles[c].kind # "Sky"
                   THEN \E e \in {slot(sprite_entities', c)} :
                           /\ e # NoEntity
                           /\ entities'[e].alive
                           /\ entities'[e].vis # "Hidden"
                           /\ entities'[e].x = c[1] /\ entities'[e].y = c[2]
                   ELSE slot(sprite_entities', c) = NoEntity
             /\ last_rect' = rect]_vars

\* the first call has just run: no drawable has been through the sprite sync
\* or the pool, the rectangle holds drawn Air and solid cells and an undrawn
\* Sky cell, and a non-Sky cell outside it has no drawable
C20_Witness ==
    /\ pc > 1
    /\ frame[pc - 1] = "stream_tiles_system"
    /\ last_rect # NoRect
    /\ last_rect = rect
    /\ free_sprites = <<>>
    /\ entities # <<>>
    /\ \A e \in DOMAIN entities : entities[e].added
    /\ \E c \in Live : tiles[c].kind = "Air"
    /\ \E c \in Live : tiles[c].kind \in SolidKinds
    /\ \E c \in Cells(width, height) \ Live :
          InRect(rect, c[1], c[2]) /\ tiles[c].kind = "Sky"
    /\ \E c \in Cells(width, height) \ Live :
          ~InRect(rect, c[1], c[2]) /\ tiles[c].kind # "Sky"


(* ------------------------------------------------------------------ *)
(* Sky cells and drawables                                             *)
(* ------------------------------------------------------------------ *)

\* C21: no cell whose kind is Sky holds a drawable handle in its slot
C21_SkyHasNoDrawable ==
    \A c \in Cells(width, height) :
        tiles[c].kind = "Sky" => slot(sprite_entities, c) = NoEntity

\* the window was streamed with a Sky cell in it, and a cell above the
\* surface that was Sky holds a drawable since a Stone was placed on it
C21_Witness ==
    /\ last_rect # NoRect
    /\ \E c \in Cells(width, height) :
          InRect(last_rect, c[1], c[2]) /\ tiles[c].kind = "Sky"
    /\ \E c \in Cells(width, height) :
          /\ c[2] < height_map[c[1]]
          /\ tiles[c].kind = "Stone"
          /\ slot(sprite_entities, c) # NoEntity


(* ------------------------------------------------------------------ *)
(* world generation: the placement of mountains and sky islands        *)
(* ------------------------------------------------------------------ *)
\* The grid and the tunables of the placement loops, scaled down.  The
\* ranges of the random draws keep the shape they have in the code; a draw
\* from an empty range is a panic of gen_range.
GenWidth == 16
GenHeight == 12
MOUNTAINS_PER_SIDE == 2
MIN_DIST_FROM_PLAYER == 1
MIN_GAP_BETWEEN == 1
WIDTH_MIN == 2
WIDTH_MAX == 3
HEIGHT_MIN == 2
HEIGHT_MAX == 2
MAX_ATTEMPTS == 3
ISLAND_MIN_RADIUS == 2
ISLAND_RADIUS_MAX == 2
ISLAND_GAP == 1
MAX_SEARCH == 2

\* rng.gen_range(lo .. hi): the values that can be drawn
gen_range(lo, hi) == lo .. hi - 1

\* the range of the centre of a mountain on one side of the player
mountain_centres(side, half, w, player_x) ==
    IF side = "left"
    THEN gen_range(half, player_x - MIN_DIST_FROM_PLAYER - half)
    ELSE gen_range(player_x + MIN_DIST_FROM_PLAYER + half, w - half - 1)

\* the overlap test on the bare footprints, the gap left out
band_taken_without_gap(bands, span) ==
    \E i \in 1 .. Len(bands) :
        /\ bands[i].r >= span.l + MIN_GAP_BETWEEN
        /\ bands[i].l <= span.r - MIN_GAP_BETWEEN

\* placed.iter().any(|b| b.r >= span.l && b.l <= span.r)
band_taken(bands, span) ==
    \E i \in 1 .. Len(bands) : bands[i].r >= span.l /\ bands[i].l <= span.r

\* height of the mountain over a column dx off its centre; the code rounds
\* height * (1 - |dx / half|)^1.3 * (1 + bump * 0.22), here the profile is
\* linear and the bump is 0
column_peak(ht, half, dx) ==
    LET a == IF dx < 0 THEN -dx ELSE dx
    IN  IF half = 0 THEN ht ELSE round_div(ht * (half - a), half)

\* one tile of a sculpted column: rock from the peak down to the surface
\* (Snow in the top rows, Stone in the two rows over the ground and from
\* the seventh row under the top; between them the code mixes Snow and
\* Stone at random, rows the mountains of this grid are too low to have),
\* and roots of Stone and Dirt under the surface where the ground is
\* Grass, Dirt or Stone
mountain_tile(t, surface, peak, y) ==
    LET top == Max(surface - peak, 0)
        base_depth == ceil_div(peak, 2)
        d == y - surface
    IN  IF y >= top /\ y <= surface
        THEN IF surface - y <= 1 \/ y - top > 2
             THEN [t EXCEPT !.kind = "Stone", !.mine_time = 30]
             ELSE [t EXCEPT !.kind = "Snow", !.mine_time = 9]
        ELSE IF d >= 1 /\ d <= base_depth /\ t.kind \in {"Grass", "Dirt", "Stone"}
        THEN IF d <= base_depth \div 3
             THEN [t EXCEPT !.kind = "Stone", !.mine_time = 30]
             ELSE [t EXCEPT !.kind = "Dirt", !.mine_time = 15]
        ELSE t

\* the columns cx - half ..= cx + half sculpted
sculpt_mountain(T, hm, cx, half, ht) ==
    [c \in DOMAIN T |->
        IF c[1] >= cx - half /\ c[1] <= cx + half
        THEN mountain_tile(T[c], hm[c[1]], column_peak(ht, half, c[1] - cx), c[2])
        ELSE T[c]]

\* an attempt that is not counted
next_attempt_uncounted(n) == n

\* attempts += 1
next_attempt(n) == n + 1

\* one pass of the while loop of generate_mountains: a width, a height and
\* a centre are drawn; a centre whose span meets a placed band is dropped,
\* any other is recorded and sculpted
gen_mountain_attempt ==
    /\ gen.phase = "mountains"
    /\ gen.made < MOUNTAINS_PER_SIDE
    /\ gen.attempts < MAX_ATTEMPTS
    /\ \E wd \in WIDTH_MIN .. WIDTH_MAX, ht \in HEIGHT_MIN .. HEIGHT_MAX :
          LET half == wd \div 2
              centres == mountain_centres(gen.side, half, width, width \div 2)
          IN  IF centres = {}
              THEN /\ gen' = [gen EXCEPT !.phase = "panicked"]
                   /\ tiles' = tiles
              ELSE \E cx \in centres :
                      LET span == [l |-> cx - half - MIN_GAP_BETWEEN,
                                   r |-> cx + half + MIN_GAP_BETWEEN]
                      IN  IF band_taken(gen.bands, span)
                          THEN /\ gen' = [gen EXCEPT
                                               !.attempts = next_attempt(@)]
                               /\ tiles' = tiles
                          ELSE /\ gen' = [gen EXCEPT
                                               !.attempts = next_attempt(@),
                                               !.made = @ + 1,
                                               !.bands = Append(@,
                                                   [l |-> cx - half,
                                                    r |-> cx + half])]
                               /\ tiles' = sculpt_mountain(tiles, height_map,
                                                           cx, half, ht)
    /\ UNCHANGED <<height_map, width, height, sprite_entities, free_sprites,
                   changed_tiles, entities, rect, last_rect, window,
                   player_pos, cam_pos, player_tile, pt_changed, vis_set,
                   done, frame, pc, inputs, viewer, loaded,
                   PREV, touched,
                   rect_written>>

\* the while loop of a side is over: the warning is printed when the
\* attempts are used up, then the other side or the islands follow
gen_mountain_side_done ==
    /\ gen.phase = "mountains"
    /\ ~(gen.made < MOUNTAINS_PER_SIDE /\ gen.attempts < MAX_ATTEMPTS)
    /\ LET warned == IF gen.attempts = MAX_ATTEMPTS
                     THEN Append(gen.warnings, "mountains")
                     ELSE gen.warnings
       IN  gen' = IF gen.side = "left"
                  THEN [gen EXCEPT !.side = "right", !.attempts = 0,
                                   !.made = 0, !.warnings = warned]
                  ELSE [gen EXCEPT !.phase = "islands", !.island = 1,
                                   !.tries = 0, !.warnings = warned]
    /\ UNCHANGED <<tiles, height_map, width, height, sprite_entities,
                   free_sprites, changed_tiles, entities, rect, last_rect,
                   window, player_pos, cam_pos, player_tile, pt_changed,
                   vis_set, done, frame, pc, inputs, viewer, loaded,
                   PREV, touched,
                   rect_written>>

\* (w / min_footprint).clamp(1, 32)
target_islands(w) ==
    Max(1, Min(32, w \div (ISLAND_MIN_RADIUS * 2 + ISLAND_GAP)))

\* rect.max_x < r.min_x || rect.min_x > r.max_x || ... for every placed r
island_free(rects, r) ==
    \A i \in 1 .. Len(rects) :
        \/ r.max_x < rects[i].min_x \/ r.min_x > rects[i].max_x
        \/ r.max_y < rects[i].min_y \/ r.min_y > rects[i].max_y

\* the island carved: a row of Grass over two rows of Dirt across
\* cx - rx ..= cx + rx (the grass line is level here, the code lets it wave
\* by a tile or two; the underside starts at depth 3 and is empty for radii
\* below 6; the cavern walkers carve inside the island only and take a
\* bounded number of steps)
carve_island(T, cx, cy, rx) ==
    [c \in DOMAIN T |->
        IF c[1] >= cx - rx /\ c[1] <= cx + rx /\ c[2] >= cy /\ c[2] <= cy + 2
        THEN IF c[2] = cy
             THEN [T[c] EXCEPT !.kind = "Grass", !.mine_time = 12]
             ELSE [T[c] EXCEPT !.kind = "Dirt", !.mine_time = 15]
        ELSE T[c]]

\* one pass of the search loop of an island: past MAX_SEARCH tries the
\* warning is printed and the island is skipped; otherwise a radius and a
\* centre are drawn and the island is carved if its footprint is free
gen_island_try ==
    /\ gen.phase = "islands"
    /\ gen.island <= target_islands(width)
    /\ IF gen.tries + 1 > MAX_SEARCH
       THEN /\ gen' = [gen EXCEPT !.island = @ + 1, !.tries = 0,
                                  !.warnings = Append(@, "island")]
            /\ tiles' = tiles
       ELSE \E rx \in ISLAND_MIN_RADIUS .. ISLAND_RADIUS_MAX :
               LET cxs == gen_range(rx + 4, width - rx - 4)
               IN  IF cxs = {}
                   THEN /\ gen' = [gen EXCEPT !.phase = "panicked"]
                        /\ tiles' = tiles
                   ELSE \E cx \in cxs :
                           LET cys == gen_range(3, height_map[cx] \div 2)
                           IN  IF cys = {}
                               THEN /\ gen' = [gen EXCEPT !.phase = "panicked"]
                                    /\ tiles' = tiles
                               ELSE \E cy \in cys :
                                       LET r == [min_x |-> cx - rx - ISLAND_GAP,
                                                 max_x |-> cx + rx + ISLAND_GAP,
                                                 min_y |-> cy - 2,
                                                 max_y |-> cy + rx \div 2 + 2]
                                       IN  IF island_free(gen.rects, r)
                                           THEN /\ gen' = [gen EXCEPT
                                                       !.island = @ + 1,
                                                       !.tries = 0,
                                                       !.rects = Append(@, r)]
                                                /\ tiles' = carve_island(tiles,
                                                                cx, cy, rx)
                                           ELSE /\ gen' = [gen EXCEPT
                                                       !.tries = @ + 1]
                                                /\ tiles' = tiles
    /\ UNCHANGED <<height_map, width, height, sprite_entities, free_sprites,
                   changed_tiles, entities, rect, last_rect, window,
                   player_pos, cam_pos, player_tile, pt_changed, vis_set,
                   done, frame, pc, inputs, viewer, loaded,
                   PREV, touched,
                   rect_written>>

\* the 'outer loop has gone through every island
gen_islands_done ==
    /\ gen.phase = "islands"
    /\ gen.island > target_islands(width)
    /\ gen' = [gen EXCEPT !.phase = "done"]
    /\ UNCHANGED <<tiles, height_map, width, height, sprite_entities,
                   free_sprites, changed_tiles, entities, rect, last_rect,
                   window, player_pos, cam_pos, player_tile, pt_changed,
                   vis_set, done, frame, pc, inputs, viewer, loaded,
                   PREV, touched,
                   rect_written>>

\* the grid as the column-wise pass leaves it, before any feature is placed
InitGen ==
    /\ width = GenWidth
    /\ height = GenHeight
    /\ height_map = [x \in 0 .. GenWidth - 1 |-> GenHeight - 3]
    /\ tiles = generated_tiles(GenWidth, GenHeight, height_map, {})
    /\ sprite_entities = [i \in 0 .. GenWidth * GenHeight - 1 |-> NoEntity]
    /\ free_sprites = <<>>
    /\ changed_tiles = <<>>
    /\ entities = <<>>
    /\ rect = NoRect
    /\ last_rect = NoRect
    /\ window \in WindowSizes
    /\ player_pos = spawn_pos(GenWidth, GenHeight, height_map)
    /\ cam_pos = <<0, 0>>
    /\ player_tile = tile_of(GenHeight, player_pos)
    /\ pt_changed = TRUE
    /\ vis_set = {}
    /\ done = FALSE
    /\ inputs = 0
    /\ frame = <<>>
    /\ pc = 1
    /\ viewer = [cam |-> TRUE, player |-> TRUE]
    /\ loaded = NoWindow
    /\ PREV = NoWindow
    /\ touched = Untouched
    /\ rect_written = FALSE
    /\ gen = [phase |-> "mountains", side |-> "left", attempts |-> 0,
              made |-> 0, bands |-> <<>>, island |-> 0, tries |-> 0,
              rects |-> <<>>, warnings |-> <<>>]

NextGen ==
    \/ gen_mountain_attempt
    \/ gen_mountain_side_done
    \/ gen_island_try
    \/ gen_islands_done

\* generate_world_and_player is one startup system: its loops run on, pass
\* after pass, until it returns
SpecGen == InitGen /\ [][NextGen]_vars /\ WF_vars(NextGen)

\* C22: generation comes to its end; the attempts of a side never exceed
\* MAX_ATTEMPTS and the tries of an island never exceed MAX_SEARCH; no draw
\* panics; a side or an island whose search is exhausted leaves every tile
\* as it was, places nothing and reports a warning
C22_GenerationTerminates ==
    /\ <>(gen.phase = "done")
    /\ [](/\ gen.attempts <= MAX_ATTEMPTS
          /\ gen.tries <= MAX_SEARCH
          /\ gen.made <= MOUNTAINS_PER_SIDE
          /\ gen.phase # "panicked")
    /\ [][(/\ gen.phase = "mountains"
           /\ gen.attempts = MAX_ATTEMPTS
           /\ gen.made < MOUNTAINS_PER_SIDE)
          => /\ tiles' = tiles
             /\ gen'.bands = gen.bands
             /\ gen'.warnings = Append(gen.warnings, "mountains")
             /\ (gen'.side # gen.side \/ gen'.phase = "islands")]_vars
    /\ [][(gen.phase = "islands" /\ gen.tries = MAX_SEARCH)
          => /\ tiles' = tiles
             /\ gen'.rects = gen.rects
             /\ gen'.warnings = Append(gen.warnings, "island")
             /\ gen'.island = gen.island + 1]_vars
C22_Witness ==
    /\ gen.phase = "done"
    /\ Len(gen.bands) >= 1
    /\ Len(gen.rects) >= 1
    /\ \E i \in 1 .. Len(gen.warnings) : gen.warnings[i] = "mountains"
    /\ \E i \in 1 .. Len(gen.warnings) : gen.warnings[i] = "island"
    /\ \E c \in Cells(width, height) : tiles[c].kind = "Snow"

(* ------------------------------------------------------------------ *)
(* tile_stream.rs: the loaded window of chunks                         *)
(* ------------------------------------------------------------------ *)
\* the chunk grid, scaled down; the grid is CHUNK_WIDTH * NUM_CHUNKS_X
\* tiles wide and CHUNK_HEIGHT * NUM_CHUNKS_Y tiles high
CHUNK_WIDTH == 2
CHUNK_HEIGHT == 2
NUM_CHUNKS_X == 4
NUM_CHUNKS_Y == 3
LOADED_CHUNK_COLS == 2
LOADED_CHUNK_ROWS == 2

\* i32 division, which truncates toward zero
trunc_div(n, d) == IF n >= 0 THEN n \div d ELSE -((-n) \div d)

\* the chunk the camera is in
camera_chunk(h, cam) ==
    <<trunc_div(round_div(cam[1], TILE_SIZE), CHUNK_WIDTH),
      trunc_div(world_to_tile_y(h, cam[2]), CHUNK_HEIGHT)>>

\* a window that follows the camera's chunk by one chunk a frame
shifted_window_by_one(w, h, win, cam) ==
    LET c == camera_chunk(h, cam)
        toward(from, to) == IF to > from THEN from + 1
                            ELSE IF to < from THEN from - 1
                            ELSE from
    IN  IF win = NoWindow
        THEN [origin_cx |-> c[1] - LOADED_CHUNK_COLS \div 2,
              origin_cy |-> c[2] - LOADED_CHUNK_ROWS \div 2]
        ELSE [origin_cx |-> toward(win.origin_cx,
                                   clamp(c[1] - LOADED_CHUNK_COLS \div 2, 0,
                                         w \div CHUNK_WIDTH - LOADED_CHUNK_COLS)),
              origin_cy |-> toward(win.origin_cy,
                                   clamp(c[2] - LOADED_CHUNK_ROWS \div 2, 0,
                                         h \div CHUNK_HEIGHT - LOADED_CHUNK_ROWS))]

\* the window shift_loaded_window_system stores: on the first run the
\* window centred on the camera's chunk as it is, afterwards the centred
\* window clamped to the chunks of the grid
shifted_window(w, h, win, cam) ==
    LET c == camera_chunk(h, cam)
    IN  IF win = NoWindow
        THEN [origin_cx |-> c[1] - LOADED_CHUNK_COLS \div 2,
              origin_cy |-> c[2] - LOADED_CHUNK_ROWS \div 2]
        ELSE [origin_cx |-> clamp(c[1] - LOADED_CHUNK_COLS \div 2, 0,
                                  w \div CHUNK_WIDTH - LOADED_CHUNK_COLS),
              origin_cy |-> clamp(c[2] - LOADED_CHUNK_ROWS \div 2, 0,
                                  h \div CHUNK_HEIGHT - LOADED_CHUNK_ROWS)]

\* shift_loaded_window_system going on without a camera
shift_loaded_window_system_unguarded ==
    /\ scheduled("shift_loaded_window_system")
    /\ ~touched.panic
    /\ loaded' = shifted_window(width, height, loaded, cam_pos)
    /\ UNCHANGED <<tiles, changed_tiles, pool_vars, rect, last_rect, player_pos,
                   cam_pos, view_vars, inputs, height_map, width, height,
                   window, done, frame, gen, viewer, PREV, touched,
                   rect_written>>

\* without a camera the system returns at once
shift_loaded_window_system ==
    /\ scheduled("shift_loaded_window_system")
    /\ ~touched.panic
    /\ loaded' = IF viewer.cam
                 THEN shifted_window(width, height, loaded, cam_pos)
                 ELSE loaded
    /\ UNCHANGED <<tiles, changed_tiles, pool_vars, rect, last_rect, player_pos,
                   cam_pos, view_vars, inputs, height_map, width, height,
                   window, done, frame, gen, viewer, PREV, touched,
                   rect_written>>

\* the tiles of a chunk as ensure_chunk and hide_chunk walk them: the far
\* edges are cut at the grid, the near edges are not
chunk_cells(w, h, ch) ==
    row_major([min_x |-> ch[1] * CHUNK_WIDTH,
               max_x |-> Min((ch[1] + 1) * CHUNK_WIDTH - 1, w - 1),
               min_y |-> ch[2] * CHUNK_HEIGHT,
               max_y |-> Min((ch[2] + 1) * CHUNK_HEIGHT - 1, h - 1)])

\* the tiles of a sequence of chunks, chunk after chunk
RECURSIVE cells_of_chunks(_, _, _)
cells_of_chunks(w, h, chs) ==
    IF chs = <<>> THEN <<>>
    ELSE IF Len(chs) = 1 THEN chunk_cells(w, h, chs[1])
    ELSE LET m == Len(chs) \div 2
         IN  CHOOSE r \in {first \o cells_of_chunks(w, h, SubSeq(chs, m + 1, Len(chs))) :
                            first \in {cells_of_chunks(w, h, SubSeq(chs, 1, m))}} : TRUE

\* ChunkRect of a window
chunk_rect(win) ==
    [min_x |-> win.origin_cx, max_x |-> win.origin_cx + LOADED_CHUNK_COLS - 1,
     min_y |-> win.origin_cy, max_y |-> win.origin_cy + LOADED_CHUNK_ROWS - 1]

\* the chunks handed to ensure_chunk, in the order of the loops
entering_chunks(prev, new) ==
    IF prev = NoWindow THEN row_major(new)
    ELSE LET off_cols(ch) == ch[1] < prev.min_x \/ ch[1] > prev.max_x
             off_rows(ch) == ch[2] < prev.min_y \/ ch[2] > prev.max_y
         IN  SelectSeq(col_major(new), off_cols)
                 \o SelectSeq(row_major(new), off_rows)

\* the chunks handed to hide_chunk, in the order of the loops
leaving_chunks(prev, new) ==
    IF prev = NoWindow THEN <<>>
    ELSE LET off_cols(ch) == ch[1] < new.min_x \/ ch[1] > new.max_x
             off_rows(ch) == /\ ch[2] < new.min_y \/ ch[2] > new.max_y
                             /\ ch[1] >= new.min_x /\ ch[1] <= new.max_x
         IN  SelectSeq(col_major(prev), off_cols)
                 \o SelectSeq(row_major(prev), off_rows)

\* hide_chunk on one tile: x as usize and y as usize go into terrain.idx,
\* which is y * width + x in wrapping arithmetic, so a tile left of the
\* grid lands on the slot of another cell
hide_tile(w, P, x, y) ==
    LET i == y * w + x
        e == P.se[i]
    IN  IF e = NoEntity THEN P
        ELSE [se |-> [P.se EXCEPT ![i] = NoEntity],
              fs |-> Append(P.fs, e),
              en |-> [P.en EXCEPT ![e] = [@ EXCEPT !.vis = "Hidden"]]]

RECURSIVE hide_all(_, _, _)
hide_all(w, P, cs) ==
    IF cs = <<>> THEN P
    ELSE IF Len(cs) = 1 THEN hide_tile(w, P, cs[1][1], cs[1][2])
    ELSE LET m == Len(cs) \div 2
         IN  CHOOSE r \in {hide_all(w, first, SubSeq(cs, m + 1, Len(cs))) :
                            first \in {hide_all(w, P, SubSeq(cs, 1, m))}} : TRUE

\* whether indexing the handle array for the tile panics: with overflow
\* checks every tile outside the grid does (the sum overflows or the index
\* is out of range), without them the tiles whose wrapped index is not an
\* index of the array
index_panics(build, w, h, c) ==
    IF build = "debug" THEN ~InBounds(w, h, c[1], c[2])
    ELSE c[2] * w + c[1] < 0 \/ c[2] * w + c[1] >= w * h

\* the tiles up to and with the first one whose indexing panics
up_to_panic(build, w, h, cs) ==
    LET bad == {k \in 1 .. Len(cs) : index_panics(build, w, h, cs[k])}
    IN  IF bad = {} THEN cs
        ELSE SubSeq(cs, 1, CHOOSE k \in bad : \A j \in bad : k <= j)

\* stream_tiles_system of tile_stream.rs: nothing to do while the window
\* is where it was; otherwise the entering chunks are ensured and the
\* leaving chunks are hidden.  ensure_sprite skips the tiles outside the
\* grid, hide_chunk indexes every tile of its chunk.
tile_stream_stream_tiles_system ==
    /\ scheduled("tile_stream_stream_tiles_system")
    /\ ~touched.panic
    /\ IF loaded = NoWindow \/ (PREV # NoWindow /\ PREV = chunk_rect(loaded))
       THEN UNCHANGED <<pool_vars, PREV, touched>>
       ELSE \E build \in {"debug", "release"} :
               LET new == chunk_rect(loaded)
                   ins == cells_of_chunks(width, height,
                                          entering_chunks(PREV, new))
                   outs == cells_of_chunks(width, height,
                                           leaving_chunks(PREV, new))
                   read == up_to_panic(build, width, height, outs)
                   at == {ins[k] : k \in {j \in 1 .. Len(ins) :
                                 InBounds(width, height, ins[j][1], ins[j][2])}}
                           \cup {read[k] : k \in 1 .. Len(read)}
               IN  IF Len(read) < Len(outs)
                      \/ (outs # <<>> /\ index_panics(build, width, height,
                                                      outs[Len(outs)]))
                   THEN /\ touched' = [at |-> at, panic |-> TRUE]
                        /\ UNCHANGED <<pool_vars, PREV>>
                   ELSE \E P \in {hide_all(width,
                                     ensure_all(tiles, width, height, Pool, ins),
                                     outs)} :
                           /\ sprite_entities' = P.se
                           /\ free_sprites' = P.fs
                           /\ entities' = P.en
                           /\ PREV' = new
                           /\ touched' = [at |-> at, panic |-> FALSE]
    /\ UNCHANGED <<tiles, changed_tiles, rect, last_rect, player_pos, cam_pos,
                   view_vars, inputs, height_map, width, height, window, done,
                   frame, gen, viewer, loaded, rect_written>>

\* the systems of a frame of the chunk window; the camera follows in
\* PostUpdate, after the systems of Update
ChunkOrder ==
    <<"update_active_rect_system", "shift_loaded_window_system",
      "tile_stream_stream_tiles_system", "detect_player_tile_change_system",
      "physics_and_collision_system", "camera_follow_system">>

\* a grid of chunks with the ground in its lower half, the player on the
\* ground at mid-width, the camera where Camera2dBundle::default() puts
\* it; the Camera and the Player entity may or may not exist
InitChunk ==
    /\ width = CHUNK_WIDTH * NUM_CHUNKS_X
    /\ height = CHUNK_HEIGHT * NUM_CHUNKS_Y
    /\ height_map = [x \in 0 .. width - 1 |-> height \div 2]
    /\ tiles = generated_tiles(width, height, height_map, {})
    /\ sprite_entities = [i \in 0 .. width * height - 1 |-> NoEntity]
    /\ free_sprites = <<>>
    /\ changed_tiles = <<>>
    /\ entities = <<>>
    /\ rect = NoRect
    /\ last_rect = NoRect
    /\ window \in WindowSizes
    /\ player_pos = spawn_pos(width, height, height_map)
    /\ cam_pos = <<0, 0>>
    /\ player_tile = tile_of(height, player_pos)
    /\ pt_changed = TRUE
    /\ vis_set = {}
    /\ done = FALSE
    /\ inputs = 0
    /\ frame = ChunkOrder
    /\ pc = 1
    /\ gen = GenOver
    /\ viewer \in [cam : BOOLEAN, player : BOOLEAN]
    /\ loaded = NoWindow
    /\ PREV = NoWindow
    /\ touched = Untouched
    /\ rect_written = FALSE

NextChunk ==
    \/ update_active_rect_system
    \/ shift_loaded_window_system
    \/ tile_stream_stream_tiles_system
    \/ detect_player_tile_change_system
    \/ physics_and_collision_system
    \/ camera_follow_system

SpecChunk == InitChunk /\ [][NextChunk]_vars

\* C23: every coordinate that streaming indexes in the tile grid or in the
\* handle array lies inside the grid, and no streaming step panics
C23_IndexedInsideGrid ==
    /\ touched.at \subseteq Cells(width, height)
    /\ ~touched.panic

\* C24: without a Camera entity update_active_rect_system and
\* shift_loaded_window_system, and without a Player entity
\* detect_player_tile_change_system, leave the Active Rectangle, the loaded
\* window, the Player Tile, the tile grid, the pool and the Mutation Queue
\* as they were
C24_NoViewerNoChange ==
    [][(\/ ~viewer.cam /\ running("update_active_rect_system")
        \/ ~viewer.cam /\ running("shift_loaded_window_system")
        \/ ~viewer.player /\ running("detect_player_tile_change_system"))
       => /\ rect' = rect
          /\ loaded' = loaded
          /\ player_tile' = player_tile
          /\ pt_changed' = pt_changed
          /\ tiles' = tiles
          /\ sprite_entities' = sprite_entities
          /\ free_sprites' = free_sprites
          /\ entities' = entities
          /\ changed_tiles' = changed_tiles]_vars
C24_Witness ==
    /\ ~viewer.cam
    /\ ~viewer.player
    /\ running("physics_and_collision_system")
    /\ rect = NoRect
    /\ loaded = NoWindow

\* C25: after a run of recompute_fov_system a cell is marked visible
\* exactly when its coordinate is in the stored visible set, and every
\* coordinate of the set is marked explored
C25_VisibleIsStoredSet ==
    [][running("recompute_fov_system")
       => \A c \in Cells(width, height) :
             /\ tiles'[c].visible <=> c \in vis_set'
             /\ c \in vis_set' => tiles'[c].explored]_vars
C25_Witness ==
    /\ running("redraw_changed_tiles_system")
    /\ ~pt_changed
    /\ \E c \in Cells(width, height) : tiles[c].visible /\ c \in vis_set
    /\ \E c \in Cells(width, height) :
          ~tiles[c].visible /\ tiles[c].explored /\ c \notin vis_set

\* C26: a run of recompute_fov_system leaves the queue it found in place
\* and appends every coordinate that is in exactly one of the old and the
\* new visible set once, and no other coordinate
C26_QueuesSymmetricDifference ==
    [][running("recompute_fov_system")
       => /\ Len(changed_tiles') >= Len(changed_tiles)
          /\ SubSeq(changed_tiles', 1, Len(changed_tiles)) = changed_tiles
          /\ \A c \in Cells(width, height) :
                occurrences(appended, c) =
                    IF (c \in vis_set) # (c \in vis_set') THEN 1 ELSE 0]_vars
C26_Witness ==
    /\ running("redraw_changed_tiles_system")
    /\ \E k \in DOMAIN changed_tiles :
          /\ changed_tiles[k] \notin vis_set
          /\ ~tiles[changed_tiles[k]].visible
          /\ tiles[changed_tiles[k]].explored
    /\ \E k \in DOMAIN changed_tiles : changed_tiles[k] \in vis_set
    /\ \E c \in vis_set : occurrences(changed_tiles, c) = 0

\* C27: the rectangle update_active_rect_system leaves behind lies inside
\* the grid with min <= max on both axes, and the run writes the resource
\* only when the rectangle it computed differs from the stored one
rect_inside(r, w, h) ==
    /\ 0 <= r.min_x /\ r.min_x <= r.max_x /\ r.max_x <= w - 1
    /\ 0 <= r.min_y /\ r.min_y <= r.max_y /\ r.max_y <= h - 1
\* camera positions from two tiles outside the grid on every side, by half
\* tiles, and viewports from nothing to twice the grid
probe_cameras ==
    {<<i * (TILE_SIZE \div 2), j * (TILE_SIZE \div 2)>> :
        i \in -4 .. 2 * width + 4, j \in -4 .. 2 * height + 4}
probe_viewports ==
    {<<i * TILE_SIZE, j * TILE_SIZE>> :
        i \in {0, 1, width, 2 * width}, j \in {0, 1, 2 * height}}
C27_RectClampedAndKept ==
    [][(running("update_active_rect_system") /\ viewer.cam)
       => /\ rect_inside(rect', width, height)
          /\ rect' = active_rect(width, height, window, cam_pos)
          /\ rect_written' => rect' # rect
          /\ \A cam \in probe_cameras, win \in probe_viewports :
                rect_inside(active_rect(width, height, win, cam), width, height)]_vars
C27_Witness ==
    /\ running("stream_tiles_system")
    /\ rect # NoRect
    /\ last_rect # NoRect
    /\ ~rect_written
    /\ \E f \in {"min_x", "max_x"} : rect[f] \in {0, width - 1}

\* what pool-first materialization of cell c makes of pool P into Q: a
\* drawable is created only if the pool is empty; a cell that has a
\* drawable keeps it and the pool is left alone; a cell without one that is
\* not Sky takes the handle on top of a non-empty pool, which is pointed at
\* the cell and shown
pool_first(P, Q, c) ==
    LET i == idx(width, c[1], c[2])
    IN  /\ Len(Q.en) > Len(P.en) => P.fs = <<>>
        /\ (P.se[i] # NoEntity /\ tiles[c].kind # "Sky")
              => /\ Q.se = P.se
                 /\ Q.fs = P.fs
                 /\ Len(Q.en) = Len(P.en)
        /\ (P.se[i] = NoEntity /\ tiles[c].kind # "Sky" /\ P.fs # <<>>)
              => /\ Q.se = [P.se EXCEPT ![i] = P.fs[Len(P.fs)]]
                 /\ Q.fs = SubSeq(P.fs, 1, Len(P.fs) - 1)
                 /\ Len(Q.en) = Len(P.en)
                 /\ Q.en[Q.se[i]].x = c[1]
                 /\ Q.en[Q.se[i]].y = c[2]
                 /\ Q.en[Q.se[i]].vis = "Visible"

\* C28: where streaming or the redraw is about to run, ensure_sprite and
\* the redraw of any one cell create a drawable only if free_sprites is
\* empty, otherwise pop and re-parameterize a pooled one, and leave the
\* mapping alone if the cell has a drawable
C28_PoolFirst ==
    (running("stream_tiles_system") \/ running("redraw_changed_tiles_system"))
    => \A c \in Cells(width, height) :
          /\ pool_first(Pool, ensure_sprite(tiles, width, height, Pool, c[1], c[2]), c)
          /\ pool_first(Pool, redraw_changed_tiles(tiles, width, Pool, <<c>>), c)
C28_Witness ==
    /\ running("redraw_changed_tiles_system")
    /\ free_sprites # <<>>
    /\ \E k \in DOMAIN changed_tiles :
          /\ tiles[changed_tiles[k]].kind # "Sky"
          /\ slot(sprite_entities, changed_tiles[k]) = NoEntity
    /\ \E k \in DOMAIN changed_tiles :
          slot(sprite_entities, changed_tiles[k]) # NoEntity

\* the drawables shown at cell c: entities in pool state P that carry the
\* cell's coordinate, are not hidden and are not in the pool
drawables_at(P, c) ==
    {e \in DOMAIN P.en :
        /\ P.en[e].x = c[1] /\ P.en[e].y = c[2]
        /\ P.en[e].vis # "Hidden"
        /\ \A k \in DOMAIN P.fs : P.fs[k] # e}

\* the pool state after the step once sync_tile_sprite_entities_system ran
synced_after ==
    [se |-> synced(width, height, entities', sprite_entities'),
     fs |-> free_sprites', en |-> entities']

\* C29: the redraw leaves the queue empty, and once the new drawables are
\* recorded every coordinate it drained has exactly one drawable, held in
\* its slot, if its kind is not Sky and none if it is Sky
C29_DrainedHaveOneDrawable ==
    [][running("redraw_changed_tiles_system")
       => /\ changed_tiles' = <<>>
          /\ \A k \in DOMAIN changed_tiles :
                \E c \in {changed_tiles[k]} :
                   IF tiles[c].kind = "Sky"
                   THEN /\ slot(synced_after.se, c) = NoEntity
                        /\ drawables_at(synced_after, c) = {}
                   ELSE drawables_at(synced_after, c)
                            = {slot(synced_after.se, c)}]_vars

\* the cells directly under the surface: ALWAYS_VISIBLE_DEPTH rows below
\* height_map[x] in every column
under_surface ==
    {c \in Cells(width, height) :
        /\ c[2] > height_map[c[1]]
        /\ c[2] <= height_map[c[1]] + ALWAYS_VISIBLE_DEPTH}

\* C30: a recomputation of the visible set puts every cell of the
\* ALWAYS_VISIBLE_DEPTH rows under the surface, in every column of the
\* grid and so of the active window, into the set
C30_BandAlwaysVisible ==
    [][(running("recompute_fov_system") /\ pt_changed)
       => under_surface \subseteq vis_set']_vars
C30_Witness ==
    /\ running("redraw_changed_tiles_system")
    /\ ~pt_changed
    /\ \E c \in under_surface :
          /\ c \in vis_set
          /\ c \notin halo_bleed(width, height,
                                 lit_tiles(tiles, width, height, player_tile[1],
                                           player_tile[2], FOV_RADIUS))

(* ------------------------------------------------------------------ *)
(* C35: the bands of the placed mountains                              *)
(* ------------------------------------------------------------------ *)
\* the bands placed left and right of the spawn column
bands_left == {i \in 1 .. Len(gen.bands) : gen.bands[i].r < width \div 2}
bands_right == {i \in 1 .. Len(gen.bands) : gen.bands[i].l > width \div 2}

\* C35: whatever the draws, any two placed bands lie more than
\* MIN_GAP_BETWEEN columns apart, every band keeps at least
\* MIN_DIST_FROM_PLAYER columns between itself and the spawn column, and
\* each side of the spawn column holds at most MOUNTAINS_PER_SIDE bands
C35_BandsApart ==
    /\ \A i, j \in 1 .. Len(gen.bands) :
          i # j => \/ gen.bands[j].l - gen.bands[i].r > MIN_GAP_BETWEEN
                   \/ gen.bands[i].l - gen.bands[j].r > MIN_GAP_BETWEEN
    /\ \A i \in 1 .. Len(gen.bands) :
          \/ gen.bands[i].r <= width \div 2 - MIN_DIST_FROM_PLAYER
          \/ gen.bands[i].l >= width \div 2 + MIN_DIST_FROM_PLAYER
    /\ Cardinality(bands_left) <= MOUNTAINS_PER_SIDE
    /\ Cardinality(bands_right) <= MOUNTAINS_PER_SIDE
    /\ bands_left \cup bands_right = 1 .. Len(gen.bands)
C35_Witness ==
    /\ gen.phase = "done"
    /\ Cardinality(bands_left) = MOUNTAINS_PER_SIDE
    /\ Cardinality(bands_right) >= 1
    /\ \E i, j \in bands_left :
          gen.bands[j].l - gen.bands[i].r = MIN_GAP_BETWEEN + 1

(* ------------------------------------------------------------------ *)
(* C36, C39: the loaded window and the viewer's chunk                  *)
(* ------------------------------------------------------------------ *)
\* the tile the camera is over
camera_tile == <<round_div(cam_pos[1], TILE_SIZE),
                 world_to_tile_y(height, cam_pos[2])>>

\* a chunk inside a window
in_window(win, ch) ==
    /\ win.origin_cx <= ch[1] /\ ch[1] <= win.origin_cx + LOADED_CHUNK_COLS - 1
    /\ win.origin_cy <= ch[2] /\ ch[2] <= win.origin_cy + LOADED_CHUNK_ROWS - 1

\* C36: when shift_loaded_window_system has run with a camera over a tile
\* of the grid, the camera's chunk is one of the chunks of the window it
\* leaves, however far the camera moved since the frame before
C36_ViewerChunkInWindow ==
    [][(/\ running("shift_loaded_window_system")
        /\ viewer.cam
        /\ InBounds(width, height, camera_tile[1], camera_tile[2]))
       => /\ loaded' # NoWindow
          /\ in_window(loaded', camera_chunk(height, cam_pos))]_vars
C36_Witness ==
    /\ running("tile_stream_stream_tiles_system")
    /\ viewer.cam
    /\ InBounds(width, height, camera_tile[1], camera_tile[2])
    /\ loaded # NoWindow
    /\ PREV # NoWindow
    /\ loaded.origin_cx - PREV.min_x >= 2
    /\ in_window(loaded, camera_chunk(height, cam_pos))

\* C39: once the LoadedWindow exists its origin is a chunk of the grid
\* from which the whole window fits into the grid
C39_OriginInsideGrid ==
    loaded # NoWindow
        => /\ 0 <= loaded.origin_cx
           /\ loaded.origin_cx <= width \div CHUNK_WIDTH - LOADED_CHUNK_COLS
           /\ 0 <= loaded.origin_cy
           /\ loaded.origin_cy <= height \div CHUNK_HEIGHT - LOADED_CHUNK_ROWS

(* ------------------------------------------------------------------ *)
(* C37: conservation of the tile drawable handles                      *)
(* ------------------------------------------------------------------ *)
\* C37: when sync_tile_sprite_entities_system has run, every tile drawable
\* ever created is held by exactly one slot and not pooled, or is pooled
\* and held by no slot
C37_HandlesConserved ==
    [][running("sync_tile_sprite_entities_system")
       => \A e \in DOMAIN entities' :
             LET held == {i \in DOMAIN sprite_entities' : sprite_entities'[i] = e}
                 inpool == \E k \in DOMAIN free_sprites' : free_sprites'[k] = e
             IN  \/ Cardinality(held) = 1 /\ ~inpool
                 \/ held = {} /\ inpool]_vars

(* ------------------------------------------------------------------ *)
(* C38: hidden drawables and the pool                                  *)
(* ------------------------------------------------------------------ *)
\* the handles held by the slots
held_handles == {sprite_entities[i] : i \in DOMAIN sprite_entities} \ {NoEntity}

\* every handle in a slot carries the coordinates of the cell of that slot
tagged_by_slot ==
    \A i \in DOMAIN sprite_entities :
        sprite_entities[i] # NoEntity
            => idx(width, entities[sprite_entities[i]].x,
                          entities[sprite_entities[i]].y) = i

\* C38 as stated: every handle in a slot has Visibility::Visible and the
\* coordinates of its cell, every pooled handle has Visibility::Hidden
C38_SlotVisiblePoolHidden ==
    /\ \A e \in held_handles : entities[e].vis = "Visible"
    /\ tagged_by_slot
    /\ \A k \in DOMAIN free_sprites : entities[free_sprites[k]].vis = "Hidden"

\* C38 amended: a drawable is hidden exactly if it is pooled; a handle in a
\* slot is not hidden (it was set Visible when it was reused or redrawn,
\* and has the Visibility it was spawned with otherwise) and carries the
\* coordinates of its cell
C38_HiddenIffPooled ==
    /\ \A e \in DOMAIN entities : entities[e].vis = "Hidden" <=> pooled(e)
    /\ \A e \in held_handles : entities[e].vis \in {"Visible", "Inherited"}
    /\ tagged_by_slot
C38_Witness ==
    /\ \E e \in DOMAIN entities : pooled(e) /\ entities[e].vis = "Hidden"
    /\ \E e \in held_handles : entities[e].vis = "Visible"
    /\ \E e \in held_handles : entities[e].vis = "Inherited"
    /\ \A e \in DOMAIN entities : ~entities[e].added

(* ------------------------------------------------------------------ *)
(* world generation: the column fill and the carved discs              *)
(* ------------------------------------------------------------------ *)
\* rows under the surface the column fill keeps solid (8 in terrain.rs,
\* scaled to the grid)
MIN_CAVE_DEPTH == 2

\* (h as f32 * OBSIDIAN_START_FRAC) as usize, the fraction being 0.80
obsidian_start(h) == (h * 4) \div 5

\* the kind the column fill gives the ground tile of row y in a column
\* whose surface row is `surface`: `rift` tells whether the rift noise of
\* the column is over RIFT_THRESH, `roll` whether the random draw made for
\* the tile came out under its ratio (GRASS_RATIO on the surface row,
\* DIRT_TO_STONE or STONE_TO_OBSID below it)
ground_kind(h, surface, rift, roll, y) ==
    LET depth == y - surface
        layer == IF depth < MIN_CAVE_DEPTH
                 THEN IF depth > h \div 4 THEN "Stone" ELSE "Dirt"
                 ELSE IF rift /\ depth > 3 THEN "Air"
                 ELSE IF y >= obsidian_start(h) THEN "Obsidian"
                 ELSE IF depth > h \div 4 THEN "Stone"
                 ELSE "Dirt"
    IN  IF depth = 0 THEN IF roll THEN "Grass" ELSE "Dirt"
        ELSE IF layer = "Dirt" /\ roll THEN "Stone"
        ELSE IF layer = "Stone" /\ roll THEN "Obsidian"
        ELSE layer

\* the grid after the column-wise pass: Sky over the surface row of each
\* column, ground from it down, every tile with the mine time of its kind
filled_tiles(w, h, hm, rifts, rolls) ==
    [c \in Cells(w, h) |->
        LET k == IF c[2] < hm[c[1]] THEN "Sky"
                 ELSE ground_kind(h, hm[c[1]], c[1] \in rifts, c \in rolls, c[2])
        IN  [kind |-> k, visible |-> FALSE, explored |-> FALSE,
             mine_time |-> mine_time_of(k)]]

\* the offsets <<dx, dy>> the loops of carve_disc go through, in their
\* order.  slice is ((1.0 - nx * nx).sqrt() * r as f32).round() as i32 with
\* nx = dx / r: the square root of r * r - dx * dx (f is its floor) rounded
\* to the nearest integer; for r = 0 the quotient is NaN, which the cast
\* turns into 0
RECURSIVE disc_offsets(_, _)
disc_offsets(r, dx) ==
    IF dx > r THEN <<>>
    ELSE LET n == r * r - dx * dx
             f == CHOOSE s \in 0 .. n : s * s <= n /\ n < (s + 1) * (s + 1)
             slice == IF r = 0 THEN 0
                      ELSE IF n - f * f > f THEN f + 1 ELSE f
         IN  [k \in 1 .. 2 * slice + 1 |-> <<dx, k - 1 - slice>>]
                 \o disc_offsets(r, dx + 1)

\* the body of the loops of carve_disc with the Sky test left out
carve_cell_opening_sky(S, w, h, x, y) ==
    IF x < 0 \/ x >= w \/ y < 0 \/ y >= h THEN S
    ELSE [T |-> [S.T EXCEPT ![<<x, y>>] =
                    [@ EXCEPT !.kind = "Air", !.mine_time = 0]],
          at |-> S.at \cup {<<x, y>>}]

\* the body of the loops of carve_disc: a coordinate outside the grid is
\* skipped before the grid is indexed, a Sky tile is read and left, any
\* other tile becomes Air with mine_time 0.  S.T is the grid, S.at the
\* coordinates the grid was indexed with
carve_cell(S, w, h, x, y) ==
    IF x < 0 \/ x >= w \/ y < 0 \/ y >= h THEN S
    ELSE IF S.T[<<x, y>>].kind = "Sky" THEN [S EXCEPT !.at = @ \cup {<<x, y>>}]
    ELSE [T |-> [S.T EXCEPT ![<<x, y>>] =
                    [@ EXCEPT !.kind = "Air", !.mine_time = 0]],
          at |-> S.at \cup {<<x, y>>}]

RECURSIVE carve_cells(_, _, _, _, _, _)
carve_cells(S, w, h, cx, cy, offs) ==
    IF offs = <<>> THEN S
    ELSE IF Len(offs) = 1
    THEN carve_cell(S, w, h, cx + offs[1][1], cy + offs[1][2])
    ELSE LET m == Len(offs) \div 2
         IN  CHOOSE r \in {carve_cells(first, w, h, cx, cy,
                                       SubSeq(offs, m + 1, Len(offs))) :
                            first \in {carve_cells(S, w, h, cx, cy,
                                                   SubSeq(offs, 1, m))}} : TRUE

\* carve_disc
carve_disc(T, w, h, cx, cy, r) ==
    carve_cells([T |-> T, at |-> {}], w, h, cx, cy, disc_offsets(r, -r))

(* ------------------------------------------------------------------ *)
(* the stages that write the grid: column fill, a mountain, an island, *)
(* a carved disc                                                        *)
(* ------------------------------------------------------------------ *)
DiscWidth == 13
DiscHeight == 13
\* largest radius of a carved disc
DiscRadius == 2

\* generate_mountains places a mountain, or gives up on all of them: a
\* width, a height and a centre are drawn as in gen_mountain_attempt and
\* the columns of the mountain are sculpted
stage_mountain ==
    /\ gen.phase = "mountains"
    /\ \/ tiles' = tiles
       \/ \E side \in {"left", "right"}, wd \in WIDTH_MIN .. WIDTH_MAX,
             ht \in HEIGHT_MIN .. HEIGHT_MAX :
             \E cx \in mountain_centres(side, wd \div 2, width, width \div 2) :
                tiles' = sculpt_mountain(tiles, height_map, cx, wd \div 2, ht)
    /\ gen' = [gen EXCEPT !.phase = "islands"]
    /\ UNCHANGED <<height_map, width, height, sprite_entities, free_sprites,
                   changed_tiles, entities, rect, last_rect, window,
                   player_pos, cam_pos, player_tile, pt_changed, vis_set,
                   done, frame, pc, inputs, viewer, loaded, PREV, touched,
                   rect_written>>

\* the island loop places an island, or skips all of them: a radius and a
\* centre are drawn as in gen_island_try and the island is carved
stage_island ==
    /\ gen.phase = "islands"
    /\ \/ tiles' = tiles
       \/ \E rx \in ISLAND_MIN_RADIUS .. ISLAND_RADIUS_MAX :
             \E cx \in gen_range(rx + 4, width - rx - 4) :
                \E cy \in gen_range(3, height_map[cx] \div 2) :
                   tiles' = carve_island(tiles, cx, cy, rx)
    /\ gen' = [gen EXCEPT !.phase = "disc"]
    /\ UNCHANGED <<height_map, width, height, sprite_entities, free_sprites,
                   changed_tiles, entities, rect, last_rect, window,
                   player_pos, cam_pos, player_tile, pt_changed, vis_set,
                   done, frame, pc, inputs, viewer, loaded, PREV, touched,
                   rect_written>>

\* carve_disc called with a centre on the grid or a column or row off it,
\* and a radius from 0 to DiscRadius
carve_disc_call ==
    /\ gen.phase = "disc"
    /\ \E cx \in -1 .. width, cy \in -1 .. height, r \in 0 .. DiscRadius :
          \E S \in {carve_disc(tiles, width, height, cx, cy, r)} :
             /\ tiles' = S.T
             /\ touched' = [at |-> S.at, panic |-> FALSE]
             /\ gen' = [phase |-> "carved", cx |-> cx, cy |-> cy, r |-> r]
    /\ UNCHANGED <<height_map, width, height, sprite_entities, free_sprites,
                   changed_tiles, entities, rect, last_rect, window,
                   player_pos, cam_pos, player_tile, pt_changed, vis_set,
                   done, frame, pc, inputs, viewer, loaded, PREV,
                   rect_written>>

\* the grid as the column-wise pass leaves it: a level surface five rows
\* over the bottom, the rift noise high in no column or in column 1, the
\* random draws of the tiles all failed or all passed
InitDisc ==
    /\ width = DiscWidth
    /\ height = DiscHeight
    /\ height_map = [x \in 0 .. DiscWidth - 1 |-> DiscHeight - 5]
    /\ \E rifts \in {{}, {1}}, rolls \in {{}, Cells(DiscWidth, DiscHeight)} :
          tiles = filled_tiles(DiscWidth, DiscHeight, height_map, rifts, rolls)
    /\ sprite_entities = [i \in 0 .. DiscWidth * DiscHeight - 1 |-> NoEntity]
    /\ free_sprites = <<>>
    /\ changed_tiles = <<>>
    /\ entities = <<>>
    /\ rect = NoRect
    /\ last_rect = NoRect
    /\ window \in WindowSizes
    /\ player_pos = spawn_pos(DiscWidth, DiscHeight, height_map)
    /\ cam_pos = <<0, 0>>
    /\ player_tile = tile_of(DiscHeight, player_pos)
    /\ pt_changed = TRUE
    /\ vis_set = {}
    /\ done = FALSE
    /\ inputs = 0
    /\ frame = <<>>
    /\ pc = 1
    /\ viewer = [cam |-> TRUE, player |-> TRUE]
    /\ loaded = NoWindow
    /\ PREV = NoWindow
    /\ touched = Untouched
    /\ rect_written = FALSE
    /\ gen = [phase |-> "mountains", cx |-> 0, cy |-> 0, r |-> 0]

NextDisc ==
    \/ stage_mountain
    \/ stage_island
    \/ carve_disc_call

SpecDisc == InitDisc /\ [][NextDisc]_vars

\* the cells of the disc of radius r around <<cx, cy>>: at most r columns
\* off the centre and, in the column dx off it, at most the rounded
\* sqrt(r * r - dx * dx) rows off
in_disc(c, cx, cy, r) ==
    LET dx == c[1] - cx
        dy == IF c[2] >= cy THEN c[2] - cy ELSE cy - c[2]
    IN  /\ dx >= -r /\ dx <= r
        /\ dy = 0 \/ (2 * dy - 1) * (2 * dy - 1) <= 4 * (r * r - dx * dx)

\* C33: carve_disc leaves every Sky cell and every cell outside the disc as
\* it was, turns every other cell of the grid inside the disc into Air with
\* mine_time 0, and indexes the grid with coordinates of the grid only
C33_DiscFrame ==
    [][gen.phase = "disc"
       => /\ \A c \in Cells(width, height) :
                tiles'[c] = IF /\ in_disc(c, gen'.cx, gen'.cy, gen'.r)
                               /\ tiles[c].kind # "Sky"
                            THEN [tiles[c] EXCEPT !.kind = "Air", !.mine_time = 0]
                            ELSE tiles[c]
          /\ DOMAIN tiles' = Cells(width, height)
          /\ touched'.at \subseteq Cells(width, height)
          /\ ~touched'.panic]_vars
\* a disc that reaches over the left edge of the grid and covers Sky cells
\* and ground cells has been carved
C33_Witness ==
    /\ gen.phase = "carved"
    /\ gen.r = DiscRadius
    /\ gen.cx - gen.r < 0
    /\ \E c \in Cells(width, height) :
          in_disc(c, gen.cx, gen.cy, gen.r) /\ tiles[c].kind = "Sky"
    /\ \E c \in Cells(width, height) :
          /\ in_disc(c, gen.cx, gen.cy, gen.r)
          /\ tiles[c].kind = "Air"
          /\ c[2] = height_map[c[1]]
    /\ \E c \in Cells(width, height) :
          ~in_disc(c, gen.cx, gen.cy, gen.r) /\ tiles[c].kind = "Obsidian"

(* ------------------------------------------------------------------ *)
(* C32: mine times and kinds after generation                          *)
(* ------------------------------------------------------------------ *)
\* the mine times the cells of a kind carry
times(kinds) == {tiles[c].mine_time : c \in {d \in Cells(width, height) :
                                                tiles[d].kind \in kinds}}

\* every time of the first set lies under every time of the second
all_under(A, B) == \A a \in A : \A b \in B : a < b

\* C32: whichever stage wrote a cell last, an Air or Sky cell has mine
\* time 0 and a solid cell a positive one, and the mine times rise with the
\* kind: Grass and Snow under Dirt, Dirt under Stone, Stone under Obsidian
C32_MineTimeFollowsKind ==
    /\ times({"Air", "Sky"}) \subseteq {0}
    /\ all_under({0}, times({"Grass", "Snow"}))
    /\ all_under(times({"Grass", "Snow"}), times({"Dirt"}))
    /\ all_under(times({"Dirt"}), times({"Stone"}))
    /\ all_under(times({"Stone"}), times({"Obsidian"}))
\* every stage has written: the grid holds Grass of the column fill and of
\* an island, Snow of a mountain, Dirt, Stone, Obsidian, and Air that the
\* disc carved out of the ground
C32_Witness ==
    /\ gen.phase = "carved"
    /\ Cardinality(times({"Grass"})) = 2
    /\ times({"Snow"}) # {}
    /\ times({"Dirt"}) # {}
    /\ times({"Stone"}) # {}
    /\ times({"Obsidian"}) # {}
    /\ \E c \in touched.at : tiles[c].kind = "Air" /\ c[2] >= height_map[c[1]]

(* ------------------------------------------------------------------ *)
(* carve_underground_caverns: the walkers under the ground             *)
(* ------------------------------------------------------------------ *)
\* the grid and the tunables of the walkers, scaled down
CaveWidth == 9
CaveHeight == 10
UNDER_WALKERS_MIN == 1
UNDER_STEPS_MIN == 2
UNDER_STEPS_MAX == 3
UNDER_TUNNEL_R_MIN == 1
UNDER_TUNNEL_R_MAX == 1
UNDER_ROOM_R_MIN == 2
UNDER_ROOM_R_MAX == 2

\* The code keeps the position and the direction of a walker as f32
\* vectors, the direction of unit length, and truncates the position when
\* it carves.  Here the position is a tile and the direction one of the
\* eight compass steps; a turn by up to a radian either way is a turn to
\* the neighbouring compass step or none.
Compass == <<<<1, 0>>, <<1, 1>>, <<0, 1>>, <<-1, 1>>,
             <<-1, 0>>, <<-1, -1>>, <<0, -1>>, <<1, -1>>>>

\* (Mat2::from_angle(ang) * dir).normalize()
turned(dir, by) ==
    LET i == CHOOSE k \in 1 .. 8 : Compass[k] = dir
    IN  Compass[((i - 1 + by + 8) % 8) + 1]

\* the test that ends a walk, negated: 2 <= x <= width - 2 and
\* 2 <= y <= height - 2
cave_inside(w, h, pos) ==
    /\ pos[1] >= 2 /\ pos[1] <= w - 2
    /\ pos[2] >= 2 /\ pos[2] <= h - 2

\* one pass of the seeding loop, which makes (width / 32).max(10) passes,
\* the 10 scaled to UNDER_WALKERS_MIN: a column is drawn, and a row between
\* the guaranteed solid depth and the obsidian; a column that leaves no
\* such row is passed over
seed_walker ==
    /\ gen.phase = "seed"
    /\ gen.seeds < Max(width \div 32, UNDER_WALKERS_MIN)
    /\ IF gen_range(4, width - 4) = {}
       THEN gen' = [gen EXCEPT !.phase = "panicked"]
       ELSE \E x \in gen_range(4, width - 4) :
               LET y_min == height_map[x] + MIN_CAVE_DEPTH
                   y_max == obsidian_start(height) - 4
               IN  IF y_min >= y_max
                   THEN gen' = [gen EXCEPT !.seeds = @ + 1]
                   ELSE \E y \in gen_range(y_min, y_max), d \in 1 .. 8 :
                           gen' = [gen EXCEPT
                                     !.seeds = @ + 1,
                                     !.walkers = Append(@,
                                         [pos |-> <<x, y>>, dir |-> Compass[d]])]
    /\ UNCHANGED <<tiles, height_map, width, height, sprite_entities,
                   free_sprites, changed_tiles, entities, rect, last_rect,
                   window, player_pos, cam_pos, player_tile, pt_changed,
                   vis_set, done, frame, pc, inputs, viewer, loaded,
                   PREV, touched, rect_written>>

\* the outer walking loop turns to its next walker and draws the number
\* of its steps, or ends: the seeding is over, or the walker before has
\* taken all its steps or has left the inner loop by its break
next_walker ==
    /\ \/ gen.phase = "seed" /\ gen.seeds = Max(width \div 32, UNDER_WALKERS_MIN)
       \/ /\ gen.phase = "walk"
          /\ gen.left = 0 \/ ~cave_inside(width, height, gen.pos)
    /\ IF gen.k + 1 > Len(gen.walkers)
       THEN gen' = [gen EXCEPT !.phase = "done"]
       ELSE \E steps \in UNDER_STEPS_MIN .. UNDER_STEPS_MAX :
               gen' = [gen EXCEPT !.phase = "walk",
                                  !.k = @ + 1,
                                  !.pos = gen.walkers[gen.k + 1].pos,
                                  !.dir = gen.walkers[gen.k + 1].dir,
                                  !.left = steps]
    /\ UNCHANGED <<tiles, height_map, width, height, sprite_entities,
                   free_sprites, changed_tiles, entities, rect, last_rect,
                   window, player_pos, cam_pos, player_tile, pt_changed,
                   vis_set, done, frame, pc, inputs, viewer, loaded,
                   PREV, touched, rect_written>>

\* one pass of the inner loop: a disc of a tunnel or a room radius is
\* carved at the walker, the walker turns or not and moves on by its
\* direction; a position outside the map ends the walk (the break)
walker_step ==
    /\ gen.phase = "walk"
    /\ gen.left > 0
    /\ cave_inside(width, height, gen.pos)
    /\ \E r \in (UNDER_ROOM_R_MIN .. UNDER_ROOM_R_MAX)
                    \cup (UNDER_TUNNEL_R_MIN .. UNDER_TUNNEL_R_MAX),
          by \in {-1, 0, 1} :
          \E S \in {carve_disc(tiles, width, height, gen.pos[1], gen.pos[2], r)} :
             /\ tiles' = S.T
             /\ touched' = [at |-> S.at, panic |-> FALSE]
             /\ gen' = [gen EXCEPT
                          !.dir = turned(gen.dir, by),
                          !.pos = <<gen.pos[1] + turned(gen.dir, by)[1],
                                    gen.pos[2] + turned(gen.dir, by)[2]>>,
                          !.left = @ - 1]
    /\ UNCHANGED <<height_map, width, height, sprite_entities, free_sprites,
                   changed_tiles, entities, rect, last_rect, window,
                   player_pos, cam_pos, player_tile, pt_changed, vis_set,
                   done, frame, pc, inputs, viewer, loaded, PREV,
                   rect_written>>

\* the grid as the column-wise pass leaves it, with a level surface on
\* row 1, the rift noise high in no column or in column 4
InitCave ==
    /\ width = CaveWidth
    /\ height = CaveHeight
    /\ height_map = [x \in 0 .. CaveWidth - 1 |-> 1]
    /\ \E rifts \in {{}, {4}} :
          tiles = filled_tiles(CaveWidth, CaveHeight, height_map, rifts, {})
    /\ sprite_entities = [i \in 0 .. CaveWidth * CaveHeight - 1 |-> NoEntity]
    /\ free_sprites = <<>>
    /\ changed_tiles = <<>>
    /\ entities = <<>>
    /\ rect = NoRect
    /\ last_rect = NoRect
    /\ window \in WindowSizes
    /\ player_pos = spawn_pos(CaveWidth, CaveHeight, height_map)
    /\ cam_pos = <<0, 0>>
    /\ player_tile = tile_of(CaveHeight, player_pos)
    /\ pt_changed = TRUE
    /\ vis_set = {}
    /\ done = FALSE
    /\ inputs = 0
    /\ frame = <<>>
    /\ pc = 1
    /\ viewer = [cam |-> TRUE, player |-> TRUE]
    /\ loaded = NoWindow
    /\ PREV = NoWindow
    /\ touched = Untouched
    /\ rect_written = FALSE
    /\ gen = [phase |-> "seed", seeds |-> 0, walkers |-> <<>>, k |-> 0,
              pos |-> <<0, 0>>, dir |-> <<1, 0>>, left |-> 0]

NextCave ==
    \/ seed_walker
    \/ next_walker
    \/ walker_step

SpecCave == InitCave /\ [][NextCave]_vars

\* the MIN_CAVE_DEPTH rows of each column from its surface row down
guarded_rows ==
    {c \in Cells(width, height) :
        c[2] >= height_map[c[1]] /\ c[2] < height_map[c[1]] + MIN_CAVE_DEPTH}

\* C31: when generation has run all its stages, no cell of the
\* MIN_CAVE_DEPTH rows from the surface row down is Air
C31_GuardedDepthSolid ==
    gen.phase = "done" => \A c \in guarded_rows : tiles[c].kind # "Air"

\* C34: a walker is inside the map after each of its steps, with one step
\* fewer to take, and the walking loop leaves it only when none is left
C34_WalkerTurnsBack ==
    [][gen.phase = "walk"
       => IF gen'.phase = "walk" /\ gen'.k = gen.k
          THEN /\ cave_inside(width, height, gen'.pos)
               /\ gen'.left = gen.left - 1
          ELSE gen.left = 0]_vars
=============================================================================
